---- MODULE Spec2Model ----
(***************************************************************************)
(* Model of the Tetris match coordinator (GameServer) of                   *)
(* src/games/Tetris/server_base.py: the accept loop, one handler thread    *)
(* per connection and the tick-loop threads, interleaved at the            *)
(* granularity of the regions the code runs under player_lock and of the   *)
(* statements it runs outside the lock.  The per-player simulation is      *)
(* represented in the coordinator by the two facts the coordinator reads:  *)
(* whether a piece has been spawned and the game_over flag.  One           *)
(* simulation (TetrisGame) and the winner computation of end_game are      *)
(* modelled in full, each on its own.                                      *)
(***************************************************************************)
EXTENDS Integers, Sequences, FiniteSets, TLC

\* ---------------------------------------------------------------- bounds
NumConns == 2          \* connections the accept loop can accept
NumUsers == 3          \* user ids a HELLO can carry
MaxMsgs == 3           \* messages the clients send, all connections together
MaxTick == 1           \* iterations of the tick loop (value of self.tick)
StartClock == 10       \* the wall clock when the server is constructed
MaxTime == 130         \* last instant of the wall clock
MaxLines == 2          \* lines cleared by a player of a result list
MaxFilled == 2         \* filled cells left to a player of a result list
NumShuffles == 2       \* outcomes of one shuffle the random source can give
MaxRefills == 10       \* refill_bag calls of a simulation followed for its draws
MaxStackRefills == 16  \* refill_bag calls of a simulation that is played
MaxCalls == 2          \* move, rotate and hold calls on a simulation that is played
SimStart == 1000       \* time.time() at the construction of a simulation
TimeStep == 20         \* advance of the clock between two calls on a simulation
MaxSimTime == 120      \* time a simulation is followed for
MaxPlayLocks == 2      \* pieces locked in a simulation whose pieces move freely
MaxLinesPlayed == 110  \* lines a simulation has cleared when it is taken up

\* senders on one connection, bytes of a message body, send_message calls
\* of one sender
NumSenders == 3
MaxBody == 2
MaxHolds == 2            \* successful holds in a simulation stacked up with holds
MaxSendCalls == 1
MaxRecvBody == 3         \* body bytes in a stream receive_message reads
MaxLockCalls == 1      \* calls every thread makes on the locks

\* ------------------------------------------------------ program constants
ROUND_DURATION == 90   \* self.round_duration
NO_PLAYER_GRACE == 10  \* grace period of check_game_end
JOIN_TIMEOUT == 30     \* timeout_time = time.time() + 30
MAX_PLAYERS == 2       \* len(self.players) >= 2
NoneT == 0 - 1         \* None in a field that otherwise holds a timestamp
MAX_MESSAGE_SIZE == 52428800   \* ProtocolHandler: 50 * 1024 * 1024

ROOM == "room"         \* self.room_id
Rooms == {"room", "other"}
Modes == {"player", "spectator"}

Accept == 0
Conns == 1 .. NumConns
Users == 1 .. NumUsers
LoopOf(c) == NumConns + c
Loops == {LoopOf(c) : c \in Conns}
Threads == {Accept} \cup Conns \cup Loops

VARIABLES
    now,                \* time.time()
    players,            \* self.players, in insertion order
    spectators,         \* self.spectators: user id -> connection (0: absent)
    game_started, game_ended, start_time, end_reason,
    tick,
    pc,                 \* position of every thread
    user_id, client_mode, response,   \* locals of handle_client
    msgs,               \* number of messages received so far
    uids,               \* number of distinct user ids seen so far
    spec_ids,           \* player_ids of send_initial_state_to_spectator
    results,            \* local of end_game
    raised,             \* the exceptions that have escaped from end_game
    left_how,           \* a player's handler left its loop on a LEAVE_GAME
                        \* or on a failed receive with the match in progress
    log,                \* the types of the messages delivered on each
                        \* connection, in the order of their first delivery
    start_calls,        \* number of start_game calls
    game_starts,        \* number of GAME_START broadcasts of start_game
    loops_launched,     \* number of game_loop threads started
    game_ends,          \* GAME_END broadcasts: <<reason, results>>
    reports,            \* game_ended reports sent to the lobby
    sim,                \* one TetrisGame, followed on its own
    hist,               \* what has been done to that TetrisGame so far
    end_results,        \* results and winner_id of end_game, on their own
    snd,                \* one connection's ProtocolHandler and its senders
    rcv,                \* one receive_message call on a byte stream
    locks               \* player_lock, the send locks and their threads

vars == <<now, players, spectators, game_started, game_ended, start_time,
          end_reason, tick, pc, user_id,
          client_mode, response, msgs, uids, spec_ids, results,
          raised, left_how, log, start_calls, game_starts, loops_launched,
          game_ends, reports, sim, hist, end_results, snd, rcv,
          locks>>

shared == <<players, spectators, game_started, game_ended, start_time,
            end_reason, tick>>
hlocals == <<user_id, client_mode, response, msgs, uids, spec_ids, left_how>>
counters == <<start_calls, game_starts, loops_launched, game_ends, reports>>
\* the coordinator's variables, and the ones of the parts followed on their own
coordvars == <<now, shared, pc, hlocals, results, raised, log, counters>>
protovars == <<snd, rcv, locks>>
simvars == <<sim, hist, end_results, protovars>>

\* ------------------------------------------------------------- helpers
Truthy(t) == t # NoneT /\ t # 0

\* no ProtocolHandler and no lock is followed on its own
ProtoIdle == snd = "None" /\ rcv = "None" /\ locks = "None"

Idx(u) == {i \in 1 .. Len(players) : players[i].uid = u}
InPlayers(u) == Idx(u) # {}
PlayerIds == [i \in 1 .. Len(players) |-> players[i].uid]

NewGame == [piece |-> FALSE, game_over |-> FALSE]

\* self.players[user_id] = {...}: a dict keeps the position of a key it holds
PutPlayer(ps, u, c, role) ==
    LET e == [uid |-> u, handler |-> c, role |-> role, game |-> NewGame]
    IN IF \E i \in 1 .. Len(ps) : ps[i].uid = u
       THEN [i \in 1 .. Len(ps) |-> IF ps[i].uid = u THEN e ELSE ps[i]]
       ELSE Append(ps, e)

RECURSIVE DelPlayer(_, _)
DelPlayer(ps, u) ==
    IF ps = <<>> THEN <<>>
    ELSE IF Head(ps).uid = u THEN Tail(ps)
    ELSE <<Head(ps)>> \o DelPlayer(Tail(ps), u)

RoleFor(ps) == IF Len(ps) + 1 = 1 THEN "P1"
               ELSE IF Len(ps) + 1 = 2 THEN "P2" ELSE "P3"

\* the room-full test with > written for >=
RoomFullStrict(ps) == Len(ps) > MAX_PLAYERS

\* if len(self.players) >= 2
RoomFull(ps) == Len(ps) >= MAX_PLAYERS

\* the recipient list of broadcast names connection c
Recipient(c) ==
    \/ \E i \in 1 .. Len(players) : players[i].handler = c
    \/ \E u \in Users : spectators[u] = c

\* a message is delivered on a connection
Deliver(s, m) ==
    IF \E i \in 1 .. Len(s) : s[i] = m.type THEN s ELSE Append(s, m.type)

RECURSIVE DeliverAll(_, _)
DeliverAll(s, ms) == IF ms = <<>> THEN s
                     ELSE DeliverAll(Deliver(s, Head(ms)), Tail(ms))

\* send_message on a closed socket fails and delivers nothing
Open(c) == pc[c] \notin {"idle", "closed"}

\* broadcast(message): every entry of players, then of spectators
Broadcast(lg, m) ==
    [c \in Conns |-> IF Open(c) /\ Recipient(c) THEN Deliver(lg[c], m)
                     ELSE lg[c]]

RECURSIVE BroadcastAll(_, _)
BroadcastAll(lg, ms) ==
    IF ms = <<>> THEN lg ELSE BroadcastAll(Broadcast(lg, Head(ms)), Tail(ms))

Msg(type, uid, info) == [type |-> type, uid |-> uid, info |-> info]
Snap(u) == Msg("SNAPSHOT", u, "")
GameStartMsg == Msg("GAME_START", 0, "")
GameEndMsg(reason) == Msg("GAME_END", 0, reason)

\* the main thread has left start(): the process is gone, daemon threads too
Alive == pc[Accept] \notin {"ac_done", "ac_crashed"}

TimeoutTime == StartClock + JOIN_TIMEOUT

InitServer ==
    /\ now = StartClock
    /\ players = <<>>
    /\ spectators = [u \in Users |-> 0]
    /\ game_started = FALSE
    /\ game_ended = FALSE
    /\ start_time = NoneT
    /\ end_reason = "None"
    /\ tick = 0
    /\ pc = [t \in Threads |-> IF t = Accept THEN "ac_loop"
                               ELSE IF t \in Conns THEN "idle" ELSE "gl_off"]
    /\ user_id = [c \in Conns |-> 0]
    /\ client_mode = [c \in Conns |-> "None"]
    /\ response = [c \in Conns |-> [type |-> "None", uid |-> 0, info |-> ""]]
    /\ msgs = 0
    /\ uids = 0
    /\ spec_ids = [c \in Conns |-> <<>>]
    /\ results = [t \in Threads |-> <<>>]
    /\ raised = {}
    /\ left_how = [c \in Conns |-> "none"]
    /\ log = [c \in Conns |-> <<>>]
    /\ start_calls = 0
    /\ game_starts = 0
    /\ loops_launched = 0
    /\ game_ends = <<>>
    /\ reports = <<>>

Init ==
    /\ InitServer
    /\ sim = "None"
    /\ hist = "None"
    /\ end_results = "None"
    /\ ProtoIdle

\* ------------------------------------------------------------ the clock
\* time.time() returns a value that is not below the one it returned last.
\* The clock is observed at the server's deadlines: the construction, the
\* join timeout, and a round duration after the join timeout.
Instants == {t \in {StartClock, TimeoutTime, TimeoutTime + ROUND_DURATION} :
               t <= MaxTime}
Readings == {t \in Instants : t >= now}

\* --------------------------------------------------- GameServer.start
\* accept() returns a connection: a handler thread is started for it
AcceptConn(c) ==
    /\ pc[Accept] = "ac_loop"
    /\ ~game_ended
    /\ pc[c] = "idle"
    /\ \A d \in Conns : d < c => pc[d] # "idle"
    /\ pc' = [pc EXCEPT ![c] = "recv"]
    /\ UNCHANGED <<now, shared, hlocals, results, raised, log,
                   counters>>
    /\ UNCHANGED simvars

JoinTimedOut(started, player_count, t) ==
    ~started /\ player_count < 2 /\ t >= TimeoutTime

\* accept() times out: the join timeout is evaluated on the values read
\* under the lock
AcceptTimeout ==
    /\ pc[Accept] = "ac_loop"
    /\ ~game_ended
    /\ \E t \in Readings :
         /\ JoinTimedOut(game_started, Len(players), t)
         /\ now' = t
    /\ pc' = [pc EXCEPT ![Accept] = "ac_reason"]
    /\ UNCHANGED <<shared, hlocals, results, raised, log,
                   counters>>
    /\ UNCHANGED simvars

AcceptReason ==
    /\ pc[Accept] = "ac_reason"
    /\ end_reason' = "insufficient_players"
    /\ pc' = [pc EXCEPT ![Accept] = "eg_check"]
    /\ UNCHANGED <<now, players, spectators, game_started, game_ended,
                   start_time, tick, hlocals,
                   results, raised, log, counters>>
    /\ UNCHANGED simvars

\* the loop sees game_ended, the socket is closed and start() returns
AcceptExit ==
    /\ pc[Accept] = "ac_loop"
    /\ game_ended
    /\ pc' = [pc EXCEPT ![Accept] = "ac_done"]
    /\ UNCHANGED <<now, shared, hlocals, results, raised, log,
                   counters>>
    /\ UNCHANGED simvars

\* ------------------------------------------------- GameServer.end_game
\* where a thread continues when its end_game call returns
AfterEnd(t) == IF t = Accept THEN "ac_done"
               ELSE IF t \in Conns THEN "cleanup" ELSE "gl_done"
\* where it continues when the call raises: handle_client and game_loop
\* catch Exception, the except-clause of start() that calls it does not
AfterRaise(t) == IF t = Accept THEN "ac_crashed"
                 ELSE IF t \in Conns THEN "cleanup" ELSE "gl_done"

EgCheck(t) ==
    /\ Alive
    /\ pc[t] = "eg_check"
    /\ IF game_ended
       THEN pc' = [pc EXCEPT ![t] = AfterEnd(t)]
       ELSE pc' = [pc EXCEPT ![t] = "eg_set"]
    /\ UNCHANGED <<now, shared, hlocals, results, raised, log,
                   counters>>
    /\ UNCHANGED simvars

EgSet(t) ==
    /\ Alive
    /\ pc[t] = "eg_set"
    /\ game_ended' = TRUE
    /\ pc' = [pc EXCEPT ![t] = "eg_collect"]
    /\ UNCHANGED <<now, players, spectators, game_started, start_time,
                   end_reason, tick, hlocals,
                   results, raised, log, counters>>
    /\ UNCHANGED simvars

CollectResults(ps) ==
    [i \in 1 .. Len(ps) |-> [uid |-> ps[i].uid,
                             gameOver |-> ps[i].game.game_over]]

\* the results are collected under the lock; results[0] of the winner
\* computation raises IndexError on an empty list
EgCollect(t) ==
    /\ Alive
    /\ pc[t] = "eg_collect"
    /\ results' = [results EXCEPT ![t] = CollectResults(players)]
    /\ IF CollectResults(players) = <<>>
       THEN /\ raised' = raised \cup {"IndexError"}
            /\ pc' = [pc EXCEPT ![t] = AfterRaise(t)]
       ELSE /\ pc' = [pc EXCEPT ![t] = "eg_bcast"]
            /\ UNCHANGED raised
    /\ UNCHANGED <<now, shared, hlocals, log, counters>>
    /\ UNCHANGED simvars

\* self.end_time - self.start_time raises TypeError while start_time is
\* None (end_time, just set, is read nowhere else and is not kept);
\* otherwise GAME_END is broadcast and the lobby report is sent
EgBcast(t) ==
    /\ Alive
    /\ pc[t] = "eg_bcast"
    /\ IF start_time = NoneT
       THEN /\ raised' = raised \cup {"TypeError"}
            /\ pc' = [pc EXCEPT ![t] = AfterRaise(t)]
            /\ UNCHANGED <<log, game_ends, reports>>
       ELSE /\ log' = Broadcast(log, GameEndMsg(end_reason))
            /\ game_ends' = Append(game_ends, [reason |-> end_reason,
                                               results |-> results[t]])
            /\ reports' = Append(reports, [room_id |-> ROOM,
                                           results |-> results[t]])
            /\ pc' = [pc EXCEPT ![t] = AfterEnd(t)]
            /\ UNCHANGED raised
    /\ results' = [results EXCEPT ![t] = <<>>]
    /\ UNCHANGED <<now, shared, hlocals, start_calls,
                   game_starts, loops_launched>>
    /\ UNCHANGED simvars

\* ---------------------------------------------- GameServer.handle_client
\* while not self.game_ended: where a handler that has processed a message
\* continues, decided on the value the flag has at the end of that step
LoopTop(ended) == IF ended THEN "cleanup" ELSE "recv"

\* handle_hello: the reply and the change of the maps
HelloReply(ps, u, r, m) ==
    IF r # ROOM THEN Msg("ERROR", 0, "Invalid room")
    ELSE IF m = "spectator" THEN Msg("WELCOME", u, "SPECTATOR")
    ELSE IF RoomFull(ps) THEN Msg("ERROR", 0, "Room full")
    ELSE Msg("WELCOME", u, RoleFor(ps))

\* the admission of a player without the test of the room id
HelloPlayersAnyRoom(ps, c, u, r, m) ==
    IF m = "player" /\ ~RoomFull(ps)
    THEN PutPlayer(ps, u, c, RoleFor(ps)) ELSE ps

HelloPlayers(ps, c, u, r, m) ==
    IF r = ROOM /\ m = "player" /\ ~RoomFull(ps)
    THEN PutPlayer(ps, u, c, RoleFor(ps)) ELSE ps

HelloSpectators(sp, c, u, r, m) ==
    IF r = ROOM /\ m = "spectator" THEN [sp EXCEPT ![u] = c] ELSE sp

\* a HELLO is received and handle_hello runs
RecvHello(c, u, r, m) ==
    /\ Alive
    /\ pc[c] = "recv"
    /\ msgs < MaxMsgs
    /\ u \in Users
    /\ u <= uids + 1
    /\ msgs' = msgs + 1
    /\ uids' = IF u > uids THEN u ELSE uids
    /\ response' = [response EXCEPT ![c] = HelloReply(players, u, r, m)]
    /\ players' = HelloPlayers(players, c, u, r, m)
    /\ spectators' = HelloSpectators(spectators, c, u, r, m)
    /\ pc' = [pc EXCEPT ![c] = "send_resp"]
    /\ UNCHANGED <<now, game_started, game_ended, start_time, end_reason,
                   tick, user_id, client_mode, spec_ids, left_how, results,
                   raised, log, counters>>
    /\ UNCHANGED simvars

NoResponse == Msg("None", 0, "")

ModeOf(resp) == IF resp.info = "SPECTATOR" THEN "spectator" ELSE "player"

\* handler.send_message(response), then the locals are set
SendResp(c) ==
    /\ Alive
    /\ pc[c] = "send_resp"
    /\ log' = [log EXCEPT ![c] = Deliver(@, response[c])]
    /\ IF response[c].type = "ERROR"
       THEN /\ pc' = [pc EXCEPT ![c] = LoopTop(game_ended)]
            /\ UNCHANGED <<user_id, client_mode>>
       ELSE /\ user_id' = [user_id EXCEPT ![c] = response[c].uid]
            /\ client_mode' = [client_mode EXCEPT ![c] = ModeOf(response[c])]
            /\ pc' = [pc EXCEPT ![c] = IF ModeOf(response[c]) = "spectator"
                                      THEN "spec_init" ELSE "check_start"]
    /\ response' = [response EXCEPT ![c] = NoResponse]
    /\ UNCHANGED <<now, shared, msgs, uids, spec_ids, left_how,
                   results, raised, counters>>
    /\ UNCHANGED simvars

\* send_initial_state_to_spectator without its GAME_START
SpecInitNoStart(c) ==
    /\ Alive
    /\ pc[c] = "spec_init"
    /\ spec_ids' = [spec_ids EXCEPT ![c] = PlayerIds]
    /\ pc' = [pc EXCEPT ![c] = "spec_snap"]
    /\ UNCHANGED <<now, shared, user_id, client_mode, response, msgs, uids,
                   left_how, results, raised, log, counters>>
    /\ UNCHANGED simvars

\* send_initial_state_to_spectator: the ids and the flag are read under the
\* lock, GAME_START is sent to this connection when the match has started
SpecInit(c) ==
    /\ Alive
    /\ pc[c] = "spec_init"
    /\ spec_ids' = [spec_ids EXCEPT ![c] = PlayerIds]
    /\ log' = [log EXCEPT ![c] = IF game_started THEN Deliver(@, GameStartMsg)
                                 ELSE @]
    /\ pc' = [pc EXCEPT ![c] = "spec_snap"]
    /\ UNCHANGED <<now, shared, user_id, client_mode, response, msgs, uids,
                   left_how, results, raised, counters>>
    /\ UNCHANGED simvars

RECURSIVE SnapsOf(_)
SnapsOf(ids) ==
    IF ids = <<>> THEN <<>>
    ELSE (IF InPlayers(Head(ids)) THEN <<Snap(Head(ids))>> ELSE <<>>)
         \o SnapsOf(Tail(ids))

\* one snapshot for every id read that build_snapshot still finds
SpecSnap(c) ==
    /\ Alive
    /\ pc[c] = "spec_snap"
    /\ log' = [log EXCEPT ![c] = DeliverAll(@, SnapsOf(spec_ids[c]))]
    /\ spec_ids' = [spec_ids EXCEPT ![c] = <<>>]
    /\ pc' = [pc EXCEPT ![c] = LoopTop(game_ended)]
    /\ UNCHANGED <<now, shared, user_id, client_mode, response, msgs, uids,
                   left_how, results, raised, counters>>
    /\ UNCHANGED simvars

ShouldStart(ps, started) == Len(ps) = 2 /\ ~started

\* should_start is computed under the lock
CheckStart(c) ==
    /\ Alive
    /\ pc[c] = "check_start"
    /\ pc' = [pc EXCEPT ![c] = IF ShouldStart(players, game_started)
                              THEN "sg_started"
                              ELSE LoopTop(game_ended)]
    /\ UNCHANGED <<now, shared, hlocals, results, raised, log,
                   counters>>
    /\ UNCHANGED simvars

\* ------------------------------------------------ GameServer.start_game
SgStarted(c) ==
    /\ Alive
    /\ pc[c] = "sg_started"
    /\ game_started' = TRUE
    /\ start_calls' = start_calls + 1
    /\ pc' = [pc EXCEPT ![c] = "sg_time"]
    /\ UNCHANGED <<now, players, spectators, game_ended, start_time,
                   end_reason, tick, hlocals,
                   results, raised, log, game_starts,
                   loops_launched, game_ends, reports>>
    /\ UNCHANGED simvars

SgTime(c) ==
    /\ Alive
    /\ pc[c] = "sg_time"
    /\ \E t \in Readings :
         /\ start_time' = t
         /\ now' = t
    /\ pc' = [pc EXCEPT ![c] = "sg_spawn"]
    /\ UNCHANGED <<players, spectators, game_started, game_ended,
                   end_reason, tick, hlocals,
                   results, raised, log, counters>>
    /\ UNCHANGED simvars

\* spawn_piece on every simulation (the boards are still empty)
SpawnAll(ps) ==
    [i \in 1 .. Len(ps) |-> [ps[i] EXCEPT !.game.piece = TRUE]]

SgSpawn(c) ==
    /\ Alive
    /\ pc[c] = "sg_spawn"
    /\ players' = SpawnAll(players)
    /\ pc' = [pc EXCEPT ![c] = "sg_bcast"]
    /\ UNCHANGED <<now, spectators, game_started, game_ended, start_time,
                   end_reason, tick, hlocals,
                   results, raised, log, counters>>
    /\ UNCHANGED simvars

\* GAME_START is broadcast, then the initial snapshots, then the game_loop
\* thread is started
SgBcast(c) ==
    /\ Alive
    /\ pc[c] = "sg_bcast"
    /\ log' = BroadcastAll(log, <<GameStartMsg>> \o SnapsOf(PlayerIds))
    /\ game_starts' = game_starts + 1
    /\ loops_launched' = loops_launched + 1
    /\ pc' = [pc EXCEPT ![c] = LoopTop(game_ended), ![LoopOf(c)] = "gl_loop"]
    /\ UNCHANGED <<now, shared, hlocals, results, raised,
                   start_calls, game_ends, reports>>
    /\ UNCHANGED simvars

\* ------------------------------------------- LEAVE_GAME, INPUT, the rest
InProgress == game_started /\ ~game_ended

LeftAs(c, what) ==
    IF client_mode[c] = "player" /\ InProgress THEN what ELSE left_how[c]

\* LEAVE_GAME handled as a plain break: the handler of a player leaves its
\* loop without calling end_game
RecvLeaveBreak(c) ==
    /\ Alive
    /\ pc[c] = "recv"
    /\ msgs < MaxMsgs
    /\ user_id[c] # 0
    /\ msgs' = msgs + 1
    /\ left_how' = [left_how EXCEPT ![c] = LeftAs(c, "leave_in_progress")]
    /\ IF client_mode[c] = "spectator"
       THEN spectators' = [spectators EXCEPT ![user_id[c]] = 0]
       ELSE UNCHANGED spectators
    /\ pc' = [pc EXCEPT ![c] = "cleanup"]
    /\ UNCHANGED <<now, players, game_started, game_ended, start_time,
                   end_reason, tick, user_id, client_mode,
                   response, uids, spec_ids, results, raised,
                   log, counters>>
    /\ UNCHANGED simvars

\* LEAVE_GAME with user_id set: a spectator is removed, a player ends the
\* match with reason player_exit
RecvLeave(c) ==
    /\ Alive
    /\ pc[c] = "recv"
    /\ msgs < MaxMsgs
    /\ user_id[c] # 0
    /\ msgs' = msgs + 1
    /\ left_how' = [left_how EXCEPT ![c] = LeftAs(c, "leave_in_progress")]
    /\ IF client_mode[c] = "spectator"
       THEN /\ spectators' = [spectators EXCEPT ![user_id[c]] = 0]
            /\ pc' = [pc EXCEPT ![c] = "cleanup"]
            /\ UNCHANGED end_reason
       ELSE /\ end_reason' = "player_exit"
            /\ pc' = [pc EXCEPT ![c] = "eg_check"]
            /\ UNCHANGED spectators
    /\ UNCHANGED <<now, players, game_started, game_ended, start_time,
                   tick, user_id, client_mode,
                   response, uids, spec_ids, results, raised,
                   log, counters>>
    /\ UNCHANGED simvars

\* whether handle_client passes an INPUT of this connection to handle_input
\* and handle_input goes on to the player map; the variant below leaves out
\* the test of the two flags
InputTakenAnyTime(c) == user_id[c] # 0 /\ client_mode[c] # "spectator"

InputTaken(c) ==
    /\ user_id[c] # 0
    /\ client_mode[c] # "spectator"
    /\ game_started
    /\ ~game_ended

\* an INPUT message; handle_input reads the two flags before it takes the
\* lock
RecvInput(c) ==
    /\ Alive
    /\ pc[c] = "recv"
    /\ msgs < MaxMsgs
    /\ msgs' = msgs + 1
    /\ pc' = [pc EXCEPT ![c] = IF InputTaken(c)
                              THEN "input_apply" ELSE LoopTop(game_ended)]
    /\ UNCHANGED <<now, shared, user_id, client_mode, response, uids,
                   spec_ids, left_how, results, raised, log,
                   counters>>
    /\ UNCHANGED simvars

\* what a move, rotate, hard_drop or hold can do to a simulation, as far as
\* the coordinator sees it: fail, succeed, or succeed and top out
InputOutcomes(g) ==
    IF g.game_over \/ ~g.piece
    THEN {[game |-> g, success |-> FALSE]}
    ELSE {[game |-> g, success |-> FALSE],
          [game |-> g, success |-> TRUE],
          [game |-> [g EXCEPT !.game_over = TRUE], success |-> TRUE]}

InputApply(c) ==
    /\ Alive
    /\ pc[c] = "input_apply"
    /\ pc' = [pc EXCEPT ![c] = LoopTop(game_ended)]
    /\ IF ~InPlayers(user_id[c])
       THEN UNCHANGED <<players, log>>
       ELSE \E i \in Idx(user_id[c]) : \E o \in InputOutcomes(players[i].game) :
              /\ players' = [players EXCEPT ![i].game = o.game]
              /\ log' = IF o.success THEN Broadcast(log, Snap(user_id[c]))
                        ELSE log
    /\ UNCHANGED <<now, spectators, game_started, game_ended, start_time,
                   end_reason, tick, hlocals,
                   results, raised, counters>>
    /\ UNCHANGED simvars

\* a message of another type, or LEAVE_GAME or INPUT before any HELLO
RecvOther(c) ==
    /\ Alive
    /\ pc[c] = "recv"
    /\ msgs < MaxMsgs
    /\ msgs' = msgs + 1
    /\ pc' = [pc EXCEPT ![c] = LoopTop(game_ended)]
    /\ UNCHANGED <<now, shared, user_id, client_mode, response, uids,
                   spec_ids, left_how, results, raised, log,
                   counters>>
    /\ UNCHANGED simvars

\* receive_message returns None: the peer closed or sent a bad frame
RecvFail(c) ==
    /\ Alive
    /\ pc[c] = "recv"
    /\ left_how' = [left_how EXCEPT ![c] = LeftAs(c, "drop_in_progress")]
    /\ pc' = [pc EXCEPT ![c] = "cleanup"]
    /\ UNCHANGED <<now, shared, user_id, client_mode, response, msgs, uids,
                   spec_ids, results, raised, log, counters>>
    /\ UNCHANGED simvars

\* the finally-clause
CleanupPlayers(ps, c) ==
    IF user_id[c] # 0 /\ client_mode[c] # "spectator"
    THEN DelPlayer(ps, user_id[c]) ELSE ps

CleanupSpectators(sp, c) ==
    IF user_id[c] # 0 /\ client_mode[c] = "spectator"
    THEN [sp EXCEPT ![user_id[c]] = 0] ELSE sp

Cleanup(c) ==
    /\ Alive
    /\ pc[c] = "cleanup"
    /\ players' = CleanupPlayers(players, c)
    /\ spectators' = CleanupSpectators(spectators, c)
    /\ pc' = [pc EXCEPT ![c] = "closed"]
    /\ UNCHANGED <<now, game_started, game_ended, start_time, end_reason,
                   tick, hlocals, results, raised, log, counters>>
    /\ UNCHANGED simvars

\* ------------------------------------------------- GameServer.game_loop
GlLoop(l) ==
    /\ Alive
    /\ pc[l] = "gl_loop"
    /\ pc' = [pc EXCEPT ![l] = IF game_ended THEN "gl_done" ELSE "gl_update"]
    /\ UNCHANGED <<now, shared, hlocals, results, raised, log, counters>>
    /\ UNCHANGED simvars

\* what update() can do to a simulation, as far as the coordinator sees it
UpdateOutcomes(g) ==
    IF g.game_over
    THEN {[game |-> g, changed |-> FALSE]}
    ELSE {[game |-> [g EXCEPT !.piece = TRUE], changed |-> FALSE],
          [game |-> [g EXCEPT !.piece = TRUE], changed |-> TRUE],
          [game |-> [g EXCEPT !.piece = TRUE, !.game_over = TRUE],
           changed |-> TRUE]}

RECURSIVE ChangedSnaps(_, _)
ChangedSnaps(ps, os) ==
    IF ps = <<>> THEN <<>>
    ELSE (IF Head(os).changed THEN <<Snap(Head(ps).uid)>> ELSE <<>>)
         \o ChangedSnaps(Tail(ps), Tail(os))

\* one iteration: update every simulation and push the changed ones, the
\* periodic snapshots, tick += 1.  The snapshot interval (1 s) and the tick
\* period (0.05 s) lie below the instants the clock is observed at, so
\* whether the periodic snapshots are due is not determined by them
GlUpdate(l) ==
    /\ Alive
    /\ pc[l] = "gl_update"
    /\ tick < MaxTick
    /\ \E due \in BOOLEAN,
          os \in [1 .. Len(players) ->
                   UNION {UpdateOutcomes(players[i].game)
                          : i \in 1 .. Len(players)}] :
         /\ \A i \in 1 .. Len(players) :
              os[i] \in UpdateOutcomes(players[i].game)
         /\ players' = [i \in 1 .. Len(players) |->
                          [players[i] EXCEPT !.game = os[i].game]]
         /\ log' = BroadcastAll(log,
                     ChangedSnaps(players, os)
                     \o (IF due THEN SnapsOf(PlayerIds) ELSE <<>>))
    /\ tick' = tick + 1
    /\ pc' = [pc EXCEPT ![l] = "gl_check"]
    /\ UNCHANGED <<now, spectators, game_started, game_ended, start_time,
                   end_reason, hlocals, results, raised, counters>>
    /\ UNCHANGED simvars

\* an iteration after the MaxTick-th: the simulations are updated, the
\* snapshots it sends are no longer recorded and tick is no longer counted
GlUpdateLate(l) ==
    /\ Alive
    /\ pc[l] = "gl_update"
    /\ tick >= MaxTick
    /\ \E os \in [1 .. Len(players) ->
                   UNION {UpdateOutcomes(players[i].game)
                          : i \in 1 .. Len(players)}] :
         /\ \A i \in 1 .. Len(players) :
              os[i] \in UpdateOutcomes(players[i].game)
         /\ players' = [i \in 1 .. Len(players) |->
                          [players[i] EXCEPT !.game = os[i].game]]
    /\ pc' = [pc EXCEPT ![l] = "gl_check"]
    /\ UNCHANGED <<now, spectators, game_started, game_ended, start_time,
                   end_reason, tick, hlocals, results, raised, log, counters>>
    /\ UNCHANGED simvars

\* check_game_end: the reason it records, or "continue"
AllGameOver(ps) == \A i \in 1 .. Len(ps) : ps[i].game.game_over

\* check_game_end without the time limit
CheckGameEndNoLimit(ps, st, t) ==
    IF ps = <<>>
    THEN IF Truthy(st) /\ t - st > NO_PLAYER_GRACE
         THEN "aborted_no_players" ELSE "continue"
    ELSE IF AllGameOver(ps) THEN "all_players_game_over"
    ELSE "continue"

\* check_game_end with the time limit tested before the game-over flags
CheckGameEndTimeFirst(ps, st, t) ==
    IF ps = <<>>
    THEN IF Truthy(st) /\ t - st > NO_PLAYER_GRACE
         THEN "aborted_no_players" ELSE "continue"
    ELSE IF Truthy(st) /\ t - st >= ROUND_DURATION THEN "time_limit"
    ELSE IF AllGameOver(ps) THEN "all_players_game_over"
    ELSE "continue"

CheckGameEnd(ps, st, t) ==
    IF ps = <<>>
    THEN IF Truthy(st) /\ t - st > NO_PLAYER_GRACE
         THEN "aborted_no_players" ELSE "continue"
    ELSE IF AllGameOver(ps) THEN "all_players_game_over"
    ELSE IF Truthy(st) /\ t - st >= ROUND_DURATION THEN "time_limit"
    ELSE "continue"

GlCheck(l) ==
    /\ Alive
    /\ pc[l] = "gl_check"
    /\ \E t \in Readings :
         /\ now' = t
         /\ LET r == CheckGameEnd(players, start_time, t)
            IN IF r = "continue"
               THEN /\ pc' = [pc EXCEPT ![l] = "gl_loop"]
                    /\ UNCHANGED end_reason
               ELSE /\ pc' = [pc EXCEPT ![l] = "eg_check"]
                    /\ end_reason' = r
    /\ UNCHANGED <<players, spectators, game_started, game_ended,
                   start_time, tick, hlocals,
                   results, raised, log, counters>>
    /\ UNCHANGED simvars

\* ------------------------------------- end_game: the winner of the match
\* a result of end_game, as far as the winner computation reads it
Result(u, l, go, fc) ==
    [userId |-> u, lines |-> l, gameOver |-> go, filledCells |-> fc]

\* the key of results.sort: (-lines, filledCells), compared as tuples
KeyLess(a, b) ==
    \/ a.lines > b.lines
    \/ a.lines = b.lines /\ a.filledCells < b.filledCells

\* list.sort is stable: an element goes behind those whose key is not greater
RECURSIVE InsertResult(_, _)
InsertResult(r, rs) ==
    IF rs = <<>> THEN <<r>>
    ELSE IF KeyLess(r, Head(rs)) THEN <<r>> \o rs
    ELSE <<Head(rs)>> \o InsertResult(r, Tail(rs))

RECURSIVE SortResults(_)
SortResults(rs) ==
    IF rs = <<>> THEN <<>>
    ELSE InsertResult(rs[Len(rs)], SortResults(SubSeq(rs, 1, Len(rs) - 1)))

GameOverPlayers(rs) == SelectSeq(rs, LAMBDA r : r.gameOver)
NotGameOverPlayers(rs) == SelectSeq(rs, LAMBDA r : ~r.gameOver)

\* the winner computation with the results sorted by lines only
WinnerIdLinesOnly(rs) ==
    IF Len(NotGameOverPlayers(rs)) = 1 /\ Len(GameOverPlayers(rs)) = 1
    THEN NotGameOverPlayers(rs)[1].userId
    ELSE rs[CHOOSE i \in 1 .. Len(rs) :
              /\ \A j \in 1 .. Len(rs) : rs[j].lines <= rs[i].lines
              /\ \A j \in 1 .. i - 1 : rs[j].lines < rs[i].lines].userId

\* winner_id of a non-empty result list
WinnerId(rs) ==
    IF Len(NotGameOverPlayers(rs)) = 1 /\ Len(GameOverPlayers(rs)) = 1
    THEN NotGameOverPlayers(rs)[1].userId
    ELSE SortResults(rs)[1].userId

\* the list is sorted in place only on the branch that sorts
ResultsAfter(rs) ==
    IF Len(NotGameOverPlayers(rs)) = 1 /\ Len(GameOverPlayers(rs)) = 1
    THEN rs ELSE SortResults(rs)

\* the first result of the list is marked, whoever has won
MarkWinnerFirst(rs, w) ==
    [i \in 1 .. Len(rs) |->
       [userId |-> rs[i].userId, lines |-> rs[i].lines,
        gameOver |-> rs[i].gameOver, filledCells |-> rs[i].filledCells,
        winner |-> (i = 1)]]

\* result['winner'] = (result['userId'] == winner_id)
MarkWinner(rs, w) ==
    [i \in 1 .. Len(rs) |->
       [userId |-> rs[i].userId, lines |-> rs[i].lines,
        gameOver |-> rs[i].gameOver, filledCells |-> rs[i].filledCells,
        winner |-> (rs[i].userId = w)]]

\* the result lists of one or two players
OneResult(u) ==
    {Result(u, l, go, fc) : l \in 0 .. MaxLines, go \in BOOLEAN,
                            fc \in 0 .. MaxFilled}
ResultLists ==
    {<<a>> : a \in OneResult(1)}
    \cup {<<a, b>> : a \in OneResult(1), b \in OneResult(2)}

InitWinner ==
    /\ InitServer
    /\ sim = "None"
    /\ hist = "None"
    /\ \E rs \in ResultLists :
         end_results = [given |-> rs, results |-> <<>>, winner_id |-> 0]
    /\ ProtoIdle

\* end_game from the collected results to the marked ones
DecideWinner ==
    /\ end_results.winner_id = 0
    /\ end_results' =
         [given |-> end_results.given,
          results |-> MarkWinner(ResultsAfter(end_results.given),
                                 WinnerId(end_results.given)),
          winner_id |-> WinnerId(end_results.given)]
    /\ UNCHANGED <<coordvars, sim, hist, protovars>>

NextWinner == DecideWinner

SpecWinner == InitWinner /\ [][NextWinner]_vars

\* ------------------------------------------------------------- TetrisGame
\* One simulation on its own.  Times are in hundredths of a second.

BOARD_W == 10
BOARD_H == 20
SPAWN_X == 4
LOOKAHEAD == 3
CLEAR_EFFECT_DELAY == 35
DROP_INTERVAL_1 == 100
DROP_INTERVAL_STEP == 10
DROP_INTERVAL_MIN == 10
LINES_PER_LEVEL == 10

\* list(TETROMINOS.keys())
Kinds == <<"I", "O", "T", "S", "Z", "J", "L">>

\* TETROMINOS[k]['shape']
Shape(k) ==
    CASE k = "I" -> <<<<1, 1, 1, 1>>>>
      [] k = "O" -> <<<<1, 1>>, <<1, 1>>>>
      [] k = "T" -> <<<<0, 1, 0>>, <<1, 1, 1>>>>
      [] k = "S" -> <<<<0, 1, 1>>, <<1, 1, 0>>>>
      [] k = "Z" -> <<<<1, 1, 0>>, <<0, 1, 1>>>>
      [] k = "J" -> <<<<1, 0, 0>>, <<1, 1, 1>>>>
      [] k = "L" -> <<<<0, 0, 1>>, <<1, 1, 1>>>>

\* list(TETROMINOS.keys()).index(k) + 1
ColorValue(k) == CHOOSE i \in 1 .. Len(Kinds) : Kinds[i] = k

\* rotate_matrix(matrix, True): zip(*matrix[::-1])
RotateMatrix(m) ==
    [i \in 1 .. Len(m[1]) |-> [j \in 1 .. Len(m) |-> m[Len(m) + 1 - j][i]]]

\* the shape of kind k after rot clockwise quarter turns
RECURSIVE Rotated(_, _)
Rotated(m, rot) == IF rot = 0 THEN m ELSE Rotated(RotateMatrix(m), rot - 1)

\* board cells <<column, row>> under the filled cells of kind k at rotation
\* rot and offset (x, y)
Cells(k, x, y, rot) ==
    LET shape == Rotated(Shape(k), rot)
    IN {<<x + c - 1, y + r - 1>> : <<r, c>> \in
          {rc \in (1 .. Len(shape)) \X (1 .. Len(shape[1])) :
             shape[rc[1]][rc[2]] # 0}}

\* the test check_collision applies to one cell
CellCollides(board, cell) ==
    \/ cell[1] < 0
    \/ cell[1] >= BOARD_W
    \/ cell[2] >= BOARD_H
    \/ cell[2] >= 0 /\ board[cell[2]][cell[1]] # 0

\* check_collision(dx, dy, rotation)
CheckCollision(g, dx, dy, rot) ==
    IF g.current_piece = "None" THEN FALSE
    ELSE \E cell \in Cells(g.current_piece, g.current_x + dx,
                           g.current_y + dy, rot) :
           CellCollides(g.board, cell)

EmptyRow == [x \in 0 .. BOARD_W - 1 |-> 0]
EmptyBoard == [y \in 0 .. BOARD_H - 1 |-> EmptyRow]

\* self.random.randint(0, i) in a shuffle of outcome k
RandInt(i, k) == (i * k) % (i + 1)

\* an exchange that copies one way only
CopyAt(p, a, b) == [p EXCEPT ![a] = p[b]]

\* pieces[i], pieces[j] = pieces[j], pieces[i]
SwapAt(p, a, b) == [p EXCEPT ![a] = p[b], ![b] = p[a]]

\* the Fisher-Yates loop of refill_bag from index i down to 1 (pieces is
\* indexed from 0 in the code)
RECURSIVE FisherYates(_, _, _)
FisherYates(p, i, k) ==
    IF i = 0 THEN p
    ELSE FisherYates(SwapAt(p, i + 1, RandInt(i, k) + 1), i - 1, k)

Shuffled(k) == FisherYates(Kinds, Len(Kinds) - 1, k)

\* refill_bag with the preview kept at n kinds: a shuffle of the seven kinds
\* goes to the end of the bag, then the preview is completed from the front
\* of the bag (which holds at least seven kinds at that point, so that the
\* nested refill of the code is never taken)
RefillBagTo(g, n) ==
    LET bag == g.bag \o Shuffled(Head(g.random))
        m == IF Len(g.next_pieces) < n THEN n - Len(g.next_pieces) ELSE 0
    IN [g EXCEPT !.random = Tail(g.random),
                 !.bag = SubSeq(bag, m + 1, Len(bag)),
                 !.next_pieces = g.next_pieces \o SubSeq(bag, 1, m)]

\* refill_bag keeping a preview of two kinds only
RefillBagShort(g) == RefillBagTo(g, LOOKAHEAD - 1)

RefillBag(g) == RefillBagTo(g, LOOKAHEAD)

\* TetrisGame.__init__ at time t; rnd is what self.random will give, one
\* entry per shuffle
TetrisGameInit(rnd, t) ==
    RefillBag([board |-> EmptyBoard, lines |-> 0, level |-> 1,
               game_over |-> FALSE, current_piece |-> "None",
               current_x |-> SPAWN_X, current_y |-> 0, current_rotation |-> 0,
               bag |-> <<>>, next_pieces |-> <<>>, random |-> rnd,
               hold_piece |-> "None", can_hold |-> TRUE,
               last_drop_time |-> t, drop_interval |-> DROP_INTERVAL_1,
               clearing_rows |-> <<>>, clear_effect_start |-> NoneT])

\* spawn_piece that reports the collision without ending the game
SpawnPieceGoesOn(g) ==
    LET g1 == [g EXCEPT !.current_piece = Head(g.next_pieces),
                        !.next_pieces = Tail(g.next_pieces),
                        !.current_x = SPAWN_X, !.current_y = 0,
                        !.current_rotation = 0, !.can_hold = TRUE]
        g2 == RefillBag(g1)
    IN [game |-> g2, ret |-> ~CheckCollision(g2, 0, 0, g2.current_rotation)]

\* spawn_piece: the game it leaves and the value it returns
SpawnPiece(g) ==
    LET g0 == IF g.next_pieces = <<>> THEN RefillBag(g) ELSE g
        g1 == [g0 EXCEPT !.current_piece = Head(g0.next_pieces),
                         !.next_pieces = Tail(g0.next_pieces),
                         !.current_x = SPAWN_X, !.current_y = 0,
                         !.current_rotation = 0, !.can_hold = TRUE]
        g2 == RefillBag(g1)
    IN IF CheckCollision(g2, 0, 0, g2.current_rotation)
       THEN [game |-> [g2 EXCEPT !.game_over = TRUE], ret |-> FALSE]
       ELSE [game |-> g2, ret |-> TRUE]

\* what has been done to a simulation: the kinds spawn_piece has made
\* current and what it returned last, the numbers of locks, of successful
\* holds, of move, rotate and hold calls and of inputs handled, the number
\* of locks there were at the last successful hold, the number of times
\* finalize_line_clear has removed rows since the last lock, the kick the
\* last rotate has applied (0: no rotate yet, 7: none), the time, and the
\* random source the simulation was constructed with where it is followed
NoHist == [drawn |-> <<>>, locks |-> 0, holds |-> 0, hold_at |-> NoneT,
           calls |-> 0, inputs |-> 0, removals |-> 0, spawn_ret |-> TRUE,
           rotated |-> 0, time |-> 0, seed |-> <<>>]

\* the outcomes of the shuffles of one random source: n shuffles
RandomSources(n) == [1 .. n -> 0 .. NumShuffles - 1]

\* A simulation that is constructed and then only spawns
InitBag ==
    /\ InitServer
    /\ end_results = "None"
    /\ ProtoIdle
    /\ hist = NoHist
    /\ \E rnd \in RandomSources(MaxRefills) : sim = TetrisGameInit(rnd, 0)

Spawn ==
    /\ sim.random # <<>>
    /\ LET r == SpawnPiece(sim)
       IN /\ sim' = r.game
          /\ hist' = [hist EXCEPT !.drawn = Append(@, r.game.current_piece),
                                  !.spawn_ret = r.ret]
    /\ UNCHANGED <<coordvars, end_results, protovars>>

NextBag == Spawn

SpecBag == InitBag /\ [][NextBag]_vars

\* the rows of the board, top first
RowIdx == [i \in 1 .. BOARD_H |-> i - 1]

\* the first loop of lock_piece: the cells of the active piece that are on
\* the board take its colour (its columns are on the board whenever the
\* piece does not collide)
WritePiece(g) ==
    LET cells == Cells(g.current_piece, g.current_x, g.current_y,
                       g.current_rotation)
    IN [g EXCEPT !.board =
          [y \in 0 .. BOARD_H - 1 |-> [x \in 0 .. BOARD_W - 1 |->
              IF <<x, y>> \in cells THEN ColorValue(g.current_piece)
              ELSE g.board[y][x]]]]

FullRows(board) ==
    SelectSeq(RowIdx, LAMBDA y : \A x \in 0 .. BOARD_W - 1 : board[y][x] # 0)

\* clear_lines at time t
ClearLines(g, t) ==
    IF g.clearing_rows # <<>> /\ Truthy(g.clear_effect_start) THEN g
    ELSE IF FullRows(g.board) = <<>> THEN g
    ELSE [g EXCEPT !.clearing_rows = FullRows(g.board),
                   !.clear_effect_start = t]

\* lock_piece at time t
LockPiece(g, t) ==
    LET c == ClearLines(WritePiece(g), t)
    IN IF c.clearing_rows # <<>>
       THEN [c EXCEPT !.current_piece = "None"]
       ELSE SpawnPiece(c).game

\* 1.0 - (level - 1) * 0.1 without the floor
DropIntervalNoFloor(level) ==
    DROP_INTERVAL_1 - (level - 1) * DROP_INTERVAL_STEP

\* max(0.1, 1.0 - (level - 1) * 0.1)
DropInterval(level) ==
    IF DROP_INTERVAL_1 - (level - 1) * DROP_INTERVAL_STEP > DROP_INTERVAL_MIN
    THEN DROP_INTERVAL_1 - (level - 1) * DROP_INTERVAL_STEP
    ELSE DROP_INTERVAL_MIN

\* a removal that empties the pending rows where they are
RemoveRowsInPlace(g) ==
    LET n == Len(g.clearing_rows)
        pending == {g.clearing_rows[i] : i \in 1 .. n}
    IN [g EXCEPT !.board = [y \in 0 .. BOARD_H - 1 |->
                              IF y \in pending THEN EmptyRow ELSE g.board[y]],
                 !.lines = g.lines + n,
                 !.level = ((g.lines + n) \div LINES_PER_LEVEL) + 1,
                 !.drop_interval =
                     DropInterval(((g.lines + n) \div LINES_PER_LEVEL) + 1),
                 !.clearing_rows = <<>>,
                 !.clear_effect_start = NoneT]

\* the removal of finalize_line_clear: the pending rows go, as many empty
\* rows come in at the top, lines, level and drop_interval follow
RemoveRows(g) ==
    LET n == Len(g.clearing_rows)
        pending == {g.clearing_rows[i] : i \in 1 .. n}
        remaining == SelectSeq(RowIdx, LAMBDA y : y \notin pending)
        rows == [i \in 1 .. n |-> EmptyRow]
                  \o [i \in 1 .. Len(remaining) |-> g.board[remaining[i]]]
    IN [g EXCEPT !.board = [y \in 0 .. Len(rows) - 1 |-> rows[y + 1]],
                 !.lines = g.lines + n,
                 !.level = ((g.lines + n) \div LINES_PER_LEVEL) + 1,
                 !.drop_interval =
                     DropInterval(((g.lines + n) \div LINES_PER_LEVEL) + 1),
                 !.clearing_rows = <<>>,
                 !.clear_effect_start = NoneT]

\* finalize_line_clear that does not wait for the delay
FinalizeAtOnce(g, t) ==
    IF g.clearing_rows = <<>> \/ ~Truthy(g.clear_effect_start) THEN g
    ELSE RemoveRows(g)

\* finalize_line_clear at time t
FinalizeLineClear(g, t) ==
    IF g.clearing_rows = <<>> \/ ~Truthy(g.clear_effect_start) THEN g
    ELSE IF t - g.clear_effect_start < CLEAR_EFFECT_DELAY THEN g
    ELSE RemoveRows(g)

\* no active piece; the game-over flag is not looked at
DeadNoFlag(g) == g.current_piece = "None"

\* "if self.game_over or not self.current_piece: return False"
Dead(g) == g.game_over \/ g.current_piece = "None"

\* move(direction) at time t
Move(g, d, t) ==
    IF Dead(g) THEN [game |-> g, ret |-> FALSE]
    ELSE IF d = "left"
    THEN IF ~CheckCollision(g, 0 - 1, 0, g.current_rotation)
         THEN [game |-> [g EXCEPT !.current_x = @ - 1], ret |-> TRUE]
         ELSE [game |-> g, ret |-> FALSE]
    ELSE IF d = "right"
    THEN IF ~CheckCollision(g, 1, 0, g.current_rotation)
         THEN [game |-> [g EXCEPT !.current_x = @ + 1], ret |-> TRUE]
         ELSE [game |-> g, ret |-> FALSE]
    ELSE IF d = "down"
    THEN IF ~CheckCollision(g, 0, 1, g.current_rotation)
         THEN [game |-> [g EXCEPT !.current_y = @ + 1], ret |-> TRUE]
         ELSE [game |-> LockPiece(g, t), ret |-> TRUE]
    ELSE [game |-> g, ret |-> FALSE]

\* the wall kicks with those that lift the piece tried first
KicksUpFirst == <<<<0, 0>>, <<0, 0 - 1>>, <<0 - 1, 0 - 1>>, <<1, 0 - 1>>,
                  <<0 - 1, 0>>, <<1, 0>>>>

\* the wall kicks of rotate, in the order they are tried
Kicks == <<<<0, 0>>, <<0 - 1, 0>>, <<1, 0>>, <<0, 0 - 1>>, <<0 - 1, 0 - 1>>,
           <<1, 0 - 1>>>>

\* rotate(clockwise)
Rotate(g, clockwise) ==
    IF Dead(g) THEN [game |-> g, ret |-> FALSE]
    ELSE LET rot == (g.current_rotation + (IF clockwise THEN 1 ELSE 3)) % 4
             ok == {i \in 1 .. Len(Kicks) :
                      ~CheckCollision(g, Kicks[i][1], Kicks[i][2], rot)}
         IN IF ok = {} THEN [game |-> g, ret |-> FALSE]
            ELSE LET i == CHOOSE i \in ok : \A j \in ok : i <= j
                 IN [game |-> [g EXCEPT !.current_x = @ + Kicks[i][1],
                                        !.current_y = @ + Kicks[i][2],
                                        !.current_rotation = rot],
                     ret |-> TRUE]

\* the loop of hard_drop
RECURSIVE DropDown(_)
DropDown(g) ==
    IF CheckCollision(g, 0, 1, g.current_rotation) THEN g
    ELSE DropDown([g EXCEPT !.current_y = @ + 1])

\* hard_drop at time t
HardDrop(g, t) ==
    IF Dead(g) THEN [game |-> g, ret |-> FALSE]
    ELSE [game |-> LockPiece(DropDown(g), t), ret |-> TRUE]

\* a hold that takes the next piece of the queue whether a kind is held or
\* not
HoldSwapDraws(g) == SpawnPiece([g EXCEPT !.hold_piece = g.current_piece]).game

\* the two branches of hold: the swap with the held kind, or the first hold
HoldSwap(g) ==
    IF g.hold_piece # "None"
    THEN [g EXCEPT !.hold_piece = g.current_piece,
                   !.current_piece = g.hold_piece,
                   !.current_x = SPAWN_X, !.current_y = 0,
                   !.current_rotation = 0]
    ELSE SpawnPiece([g EXCEPT !.hold_piece = g.current_piece]).game

\* hold that leaves can_hold as the branch left it
HoldKeepsFlag(g) ==
    IF Dead(g) \/ ~g.can_hold THEN [game |-> g, ret |-> FALSE]
    ELSE [game |-> HoldSwap(g), ret |-> TRUE]

\* hold()
Hold(g) ==
    IF Dead(g) \/ ~g.can_hold THEN [game |-> g, ret |-> FALSE]
    ELSE [game |-> [HoldSwap(g) EXCEPT !.can_hold = FALSE], ret |-> TRUE]

\* the history after a call that went from g to g2: whether it locked a
\* piece, whether spawn_piece ran in it, whether it was a successful hold
After(h, g2, locked, spawned, held) ==
    [h EXCEPT !.locks = IF locked THEN @ + 1 ELSE @,
              !.removals = IF locked THEN 0 ELSE @,
              !.drawn = IF spawned THEN Append(@, g2.current_piece) ELSE @,
              !.spawn_ret = IF spawned THEN ~g2.game_over ELSE @,
              !.holds = IF held THEN @ + 1 ELSE @,
              !.hold_at = IF held THEN h.locks ELSE @]

\* A simulation that is played: after the spawn of start_game, any calls of
\* hard_drop and a few of move, rotate and hold, until the random source of
\* the model is used up
RandomSourcesSame(n) == {[i \in 1 .. n |-> k] : k \in 0 .. NumShuffles - 1}

InitStack ==
    /\ InitServer
    /\ end_results = "None"
    /\ ProtoIdle
    /\ hist = [NoHist EXCEPT !.time = SimStart]
    /\ \E rnd \in RandomSourcesSame(MaxStackRefills) :
         sim = TetrisGameInit(rnd, SimStart)

StartSpawn ==
    /\ hist.drawn = <<>>
    /\ Spawn

Playing == sim.random # <<>> /\ hist.drawn # <<>>

DoMove(d) ==
    /\ Playing
    /\ hist.calls < MaxCalls
    /\ LET r == Move(sim, d, hist.time)
           locked == r.ret /\ d = "down"
                       /\ CheckCollision(sim, 0, 1, sim.current_rotation)
       IN /\ sim' = r.game
          /\ hist' = [After(hist, r.game, locked,
                            locked /\ r.game.current_piece # "None", FALSE)
                        EXCEPT !.calls = @ + 1]
    /\ UNCHANGED <<coordvars, end_results, protovars>>

\* the kick a rotate that went from g to g2 and returned ret has applied
KickOf(g, g2, ret) ==
    IF ~ret THEN Len(Kicks) + 1
    ELSE CHOOSE i \in 1 .. Len(Kicks) :
           Kicks[i] = <<g2.current_x - g.current_x, g2.current_y - g.current_y>>

DoRotate(clockwise) ==
    /\ Playing
    /\ hist.calls < MaxCalls
    /\ sim' = Rotate(sim, clockwise).game
    /\ hist' = [hist EXCEPT !.calls = @ + 1,
                            !.rotated = KickOf(sim, sim',
                                               Rotate(sim, clockwise).ret)]
    /\ UNCHANGED <<coordvars, end_results, protovars>>

DoHardDrop ==
    /\ Playing
    /\ LET r == HardDrop(sim, hist.time)
       IN /\ sim' = r.game
          /\ hist' = After(hist, r.game, r.ret,
                           r.ret /\ r.game.current_piece # "None", FALSE)
    /\ UNCHANGED <<coordvars, end_results, protovars>>

DoHold ==
    /\ Playing
    /\ hist.calls < MaxCalls
    /\ LET r == Hold(sim)
       IN /\ sim' = r.game
          /\ hist' = [After(hist, r.game, FALSE,
                            r.ret /\ sim.hold_piece = "None", r.ret)
                        EXCEPT !.calls = @ + 1]
    /\ UNCHANGED <<coordvars, end_results, protovars>>

NextStack ==
    \/ StartSpawn
    \/ \E d \in {"left", "right", "down"} : DoMove(d)
    \/ \E clockwise \in BOOLEAN : DoRotate(clockwise)
    \/ DoHardDrop
    \/ DoHold

SpecStack == InitStack /\ [][NextStack]_vars

\* update() at time t
Update(g, t) ==
    IF g.game_over THEN [game |-> g, ret |-> FALSE]
    ELSE LET f == FinalizeLineClear(g, t)
             n == IF ~f.game_over /\ f.current_piece = "None"
                       /\ f.clearing_rows = <<>>
                  THEN SpawnPiece(f).game ELSE f
         IN IF t - n.last_drop_time >= n.drop_interval
            THEN [game |-> [Move(n, "down", t).game
                              EXCEPT !.last_drop_time = t],
                  ret |-> TRUE]
            ELSE [game |-> n, ret |-> FALSE]

\* the dispatch of handle_input on the action of the message, at time t
ApplyInput(g, action, t) ==
    CASE action = "LEFT" -> Move(g, "left", t)
      [] action = "RIGHT" -> Move(g, "right", t)
      [] action = "DOWN" -> Move(g, "down", t)
      [] action = "CW" -> Rotate(g, TRUE)
      [] action = "CCW" -> Rotate(g, FALSE)
      [] action = "HARD_DROP" -> HardDrop(g, t)
      [] action = "HOLD" -> Hold(g)
      [] OTHER -> [game |-> g, ret |-> FALSE]

\* A simulation that completes a row: the inputs of one player, in order,
\* that complete the bottom row with the pieces I, O, T and S, while the
\* clock advances and the tick loop calls update; finalize_line_clear is
\* also called on its own
Script ==
    <<"LEFT", "LEFT", "LEFT", "LEFT", "HARD_DROP",
      "HARD_DROP",
      "RIGHT", "RIGHT", "HARD_DROP",
      "CW", "RIGHT", "RIGHT", "RIGHT", "RIGHT", "HARD_DROP",
      "HOLD", "HARD_DROP">>

InitClear == InitStack

DoInput ==
    /\ Playing
    /\ hist.inputs < Len(Script)
    /\ LET action == Script[hist.inputs + 1]
           r == ApplyInput(sim, action, hist.time)
           locked == /\ ~Dead(sim)
                     /\ \/ action = "HARD_DROP"
                        \/ /\ action = "DOWN"
                           /\ CheckCollision(sim, 0, 1, sim.current_rotation)
           spawned == \/ locked /\ r.game.current_piece # "None"
                      \/ action = "HOLD" /\ r.ret /\ sim.hold_piece = "None"
       IN /\ sim' = r.game
          /\ hist' = [After(hist, r.game, locked, spawned,
                            action = "HOLD" /\ r.ret)
                        EXCEPT !.inputs = @ + 1]
    /\ UNCHANGED <<coordvars, end_results, protovars>>

AdvanceTime ==
    /\ hist.time + TimeStep <= SimStart + MaxSimTime
    /\ hist' = [hist EXCEPT !.time = @ + TimeStep]
    /\ UNCHANGED <<coordvars, sim, end_results, protovars>>

DoFinalize ==
    /\ Playing
    /\ sim' = FinalizeLineClear(sim, hist.time)
    /\ hist' = [hist EXCEPT !.removals =
                  IF sim' # sim THEN @ + 1 ELSE @]
    /\ UNCHANGED <<coordvars, end_results, protovars>>

DoUpdate ==
    /\ Playing
    /\ LET f == IF sim.game_over THEN sim
                ELSE FinalizeLineClear(sim, hist.time)
           n == IF ~f.game_over /\ f.current_piece = "None"
                     /\ f.clearing_rows = <<>>
                THEN SpawnPiece(f).game ELSE f
           r == Update(sim, hist.time)
           locked == /\ r.ret /\ ~Dead(n)
                     /\ CheckCollision(n, 0, 1, n.current_rotation)
           h1 == [hist EXCEPT !.removals = IF f # sim THEN @ + 1 ELSE @]
           h2 == After(h1, n, FALSE, n # f, FALSE)
       IN /\ sim' = r.game
          /\ hist' = After(h2, r.game, locked,
                           locked /\ r.game.current_piece # "None", FALSE)
    /\ UNCHANGED <<coordvars, end_results, protovars>>

NextClear ==
    \/ StartSpawn
    \/ DoInput
    \/ AdvanceTime
    \/ DoFinalize
    \/ DoUpdate

SpecClear == InitClear /\ [][NextClear]_vars

\* A simulation whose first pieces are moved and rotated freely, without
\* hard drops, until a few of them have been locked by moving down
PlayMove(d) ==
    /\ Playing
    /\ hist.locks < MaxPlayLocks
    /\ LET r == Move(sim, d, hist.time)
           locked == r.ret /\ d = "down"
                       /\ CheckCollision(sim, 0, 1, sim.current_rotation)
       IN /\ sim' = r.game
          /\ hist' = After(hist, r.game, locked,
                           locked /\ r.game.current_piece # "None", FALSE)
    /\ UNCHANGED <<coordvars, end_results, protovars>>

PlayRotate(clockwise) ==
    /\ Playing
    /\ hist.locks < MaxPlayLocks
    /\ sim' = Rotate(sim, clockwise).game
    /\ hist' = [hist EXCEPT !.rotated = KickOf(sim, sim',
                                               Rotate(sim, clockwise).ret)]
    /\ UNCHANGED <<coordvars, end_results, protovars>>

NextPlay ==
    \/ StartSpawn
    \/ \E d \in {"left", "right", "down"} : PlayMove(d)
    \/ \E clockwise \in BOOLEAN : PlayRotate(clockwise)

SpecPlay == InitStack /\ [][NextPlay]_vars

\* A simulation taken up late in a game: n lines have been cleared, the
\* inputs of the script have just completed the bottom row once more, and
\* finalize_line_clear is called as the clock advances
RECURSIVE Played(_, _, _)
Played(g, inputs, t) ==
    IF inputs = <<>> THEN g
    ELSE Played(ApplyInput(g, Head(inputs), t).game, Tail(inputs), t)

ScriptToRow == SubSeq(Script, 1, 15)

InitLevel ==
    /\ InitServer
    /\ end_results = "None"
    /\ ProtoIdle
    /\ hist = [NoHist EXCEPT !.time = SimStart,
                             !.drawn = <<"I", "O", "T", "S">>,
                             !.locks = 4,
                             !.inputs = Len(ScriptToRow)]
    /\ \E n \in 0 .. MaxLinesPlayed :
         sim = [Played(SpawnPiece(TetrisGameInit(
                         [i \in 1 .. MaxStackRefills |-> 1], SimStart)).game,
                       ScriptToRow, SimStart)
                  EXCEPT !.lines = n,
                         !.level = (n \div LINES_PER_LEVEL) + 1,
                         !.drop_interval =
                             DropInterval((n \div LINES_PER_LEVEL) + 1)]

NextLevel ==
    \/ AdvanceTime
    \/ DoFinalize

SpecLevel == InitLevel /\ [][NextLevel]_vars

\* A simulation that is played until it tops out and is then called again:
\* the inputs handle_input dispatches and the update of the tick loop, when
\* the automatic drop is due and when it is not
InputActions == {"LEFT", "RIGHT", "DOWN", "CW", "CCW", "HARD_DROP", "HOLD"}

UpdateTimes(t) == {t, t + DROP_INTERVAL_1}

DoInputOver(action) ==
    /\ Playing
    /\ sim.game_over
    /\ hist.inputs < MaxCalls
    /\ sim' = ApplyInput(sim, action, hist.time).game
    /\ hist' = [hist EXCEPT !.inputs = @ + 1]
    /\ UNCHANGED <<coordvars, end_results, protovars>>

DoUpdateOver ==
    /\ Playing
    /\ sim.game_over
    /\ hist.inputs < MaxCalls
    /\ \E t \in UpdateTimes(hist.time) : sim' = Update(sim, t).game
    /\ hist' = [hist EXCEPT !.inputs = @ + 1]
    /\ UNCHANGED <<coordvars, end_results, protovars>>

NextOver ==
    \/ StartSpawn
    \/ \E d \in {"left", "right", "down"} : DoMove(d)
    \/ \E clockwise \in BOOLEAN : DoRotate(clockwise)
    \/ DoHardDrop
    \/ DoHold
    \/ \E action \in InputActions : DoInputOver(action)
    \/ DoUpdateOver

SpecOver == InitStack /\ [][NextOver]_vars

\* A simulation that is stacked up by hard drops, with a few holds at any
\* time and a few rotations
PlayHold ==
    /\ Playing
    /\ hist.holds < MaxHolds
    /\ LET r == Hold(sim)
       IN /\ sim' = r.game
          /\ hist' = After(hist, r.game, FALSE,
                           r.ret /\ sim.hold_piece = "None", r.ret)
    /\ UNCHANGED <<coordvars, end_results, protovars>>

NextHold ==
    \/ StartSpawn
    \/ DoHardDrop
    \/ PlayHold
    \/ \E clockwise \in BOOLEAN : DoRotate(clockwise)

SpecHold == InitStack /\ [][NextHold]_vars

\* Simulations constructed with the seed of the match and then played: the
\* seeds are random sources whose shuffles alternate between two outcomes
SeedSources(n) ==
    {[i \in 1 .. n |-> IF i % 2 = 1 THEN a ELSE b] :
        a \in 0 .. NumShuffles - 1, b \in 0 .. NumShuffles - 1}

InitSeed ==
    /\ InitServer
    /\ end_results = "None"
    /\ ProtoIdle
    /\ \E rnd \in SeedSources(MaxStackRefills) :
         /\ hist = [NoHist EXCEPT !.time = SimStart, !.seed = rnd]
         /\ sim = TetrisGameInit(rnd, SimStart)

SpecSeed == InitSeed /\ [][NextStack]_vars

\* -------------------------------------------------------- ProtocolHandler
\* utils/protocol.py.  One connection's handler and the threads that call
\* send_message on it (the connection's own handle_client with a reply, the
\* game loop and another handle_client with a broadcast).  A byte is a
\* number in 0..255.
Bytes == 0 .. 255
Senders == 1 .. NumSenders

\* struct.pack('!I', n): four bytes, most significant first
Pack32(n) ==
    <<(n \div 16777216) % 256, (n \div 65536) % 256,
      (n \div 256) % 256, n % 256>>

\* struct.unpack('!I', b)[0]
Unpack32(b) == b[1] * 16777216 + b[2] * 65536 + b[3] * 256 + b[4]

RECURSIVE Concat(_)
Concat(ss) == IF ss = <<>> THEN <<>> ELSE Head(ss) \o Concat(Tail(ss))

IsPrefix(a, b) == Len(a) <= Len(b) /\ SubSeq(b, 1, Len(a)) = a

\* the encoded JSON text sender t sends: the number tt...t of n digits
Body(t, n) == [i \in 1 .. n |-> 48 + t]

\* length_prefix + message
FullMessage(message) == Pack32(Len(message)) \o message

IdleSender ==
    [pc |-> "idle", full_message |-> <<>>, total_sent |-> 0,
     ret |-> "None", calls |-> 0]

\* stream: the bytes the socket has taken; order: the frames in the order
\* their senders entered the body of "with self._send_lock"; contended: a
\* sender has waited for the lock while a part of a frame was written
InitSend ==
    /\ InitServer
    /\ sim = "None"
    /\ hist = "None"
    /\ end_results = "None"
    /\ rcv = "None"
    /\ locks = "None"
    /\ snd = [lock |-> 0, broken |-> FALSE, stream |-> <<>>, order |-> <<>>,
              contended |-> FALSE, th |-> [t \in Senders |-> IdleSender]]

\* send_message up to the lock: the frame is built, or the message is too
\* large and the call returns False
SmBuild(t, n) ==
    /\ snd.th[t].pc \in {"idle", "done"}
    /\ snd.th[t].calls < MaxSendCalls
    /\ LET message == Body(t, n)
       IN snd' = [snd EXCEPT !.th[t] =
            IF Len(message) > MAX_MESSAGE_SIZE
            THEN [@ EXCEPT !.pc = "done", !.ret = "False",
                           !.calls = @ + 1]
            ELSE [pc |-> "lock", full_message |-> FullMessage(message),
                  total_sent |-> 0, ret |-> "None", calls |-> @.calls + 1]]
    /\ UNCHANGED <<coordvars, sim, hist, end_results, rcv, locks>>

\* threading.Lock: the lock can be taken when no sender holds it
SendLockIgnored == TRUE
SendLockFree == snd.lock = 0

\* with self._send_lock: the sender enters with total_sent = 0
SmAcquire(t) ==
    /\ snd.th[t].pc = "lock"
    /\ SendLockFree
    /\ snd' = [snd EXCEPT !.lock = t,
                          !.order = Append(@, snd.th[t].full_message),
                          !.th[t].pc = "send",
                          !.th[t].total_sent = 0]
    /\ UNCHANGED <<coordvars, sim, hist, end_results, rcv, locks>>

\* one sock.send on a connection that works: the socket takes the first k of
\* the remaining bytes; after the last byte the loop is left, the lock
\* released and True returned
SmSend(t, k) ==
    /\ snd.th[t].pc = "send"
    /\ ~snd.broken
    /\ LET me == snd.th[t]
           left == Len(me.full_message) - me.total_sent
       IN /\ k \in 1 .. left
          /\ snd' = [snd EXCEPT
               !.stream = @ \o SubSeq(me.full_message, me.total_sent + 1,
                                      me.total_sent + k),
               !.contended = @ \/ (k < left /\ \E o \in Senders :
                                                  snd.th[o].pc = "lock"),
               !.lock = IF k = left THEN 0 ELSE @,
               !.th[t] = IF k = left
                         THEN [@ EXCEPT !.pc = "done", !.ret = "True",
                                        !.total_sent = @ + k]
                         ELSE [@ EXCEPT !.total_sent = @ + k]]
    /\ UNCHANGED <<coordvars, sim, hist, end_results, rcv, locks>>

\* one sock.send that raises (the peer has reset or closed the connection,
\* or the socket has been closed): the lock is released, the exception is
\* caught and False returned; every later send on the socket raises too
SmSendRaises(t) ==
    /\ snd.th[t].pc = "send"
    /\ snd' = [snd EXCEPT !.broken = TRUE,
                          !.lock = 0,
                          !.th[t].pc = "done",
                          !.th[t].ret = "False"]
    /\ UNCHANGED <<coordvars, sim, hist, end_results, rcv, locks>>

NextSend ==
    \/ \E t \in Senders, n \in 1 .. MaxBody : SmBuild(t, n)
    \/ \E t \in Senders : SmAcquire(t)
    \/ \E t \in Senders, k \in 1 .. 4 + MaxBody : SmSend(t, k)
    \/ \E t \in Senders : SmSendRaises(t)

SpecSend == InitSend /\ [][NextSend]_vars

\* One receive_message call.  peer: the bytes that reach the socket before
\* the peer closes or resets the connection; pos: how many of them the
\* calls of sock.recv have returned; data, n: the locals of _receive_exact.
\* Message bodies are made of the bytes of  1 [ ] { }  and of 255, which
\* no UTF-8 text contains.
BodyBytes == {49, 91, 93, 123, 125, 255}

\* message_data.decode('utf-8') does not raise (ASCII and 255 only)
Utf8Ok(b) == \A i \in 1 .. Len(b) : b[i] < 128

\* json.loads accepts the text: over these characters a JSON value is a
\* number 1...1, an empty list, an empty dict, or a list of one value
RECURSIVE JsonOk(_)
JsonOk(b) ==
    IF Len(b) = 0 THEN FALSE
    ELSE IF \A i \in 1 .. Len(b) : b[i] = 49 THEN TRUE
    ELSE IF b = <<91, 93>> \/ b = <<123, 125>> THEN TRUE
    ELSE /\ Len(b) > 2
         /\ b[1] = 91
         /\ b[Len(b)] = 93
         /\ JsonOk(SubSeq(b, 2, Len(b) - 1))

\* the value json.loads returns: depth lists around a number, an empty list
\* or an empty dict
RECURSIVE JsonLoads(_)
JsonLoads(b) ==
    IF \A i \in 1 .. Len(b) : b[i] = 49
    THEN [depth |-> 0, core |-> "int",
          num |-> IF Len(b) = 1 THEN 1 ELSE IF Len(b) = 2 THEN 11 ELSE 111]
    ELSE IF b = <<91, 93>> THEN [depth |-> 0, core |-> "list", num |-> 0]
    ELSE IF b = <<123, 125>> THEN [depth |-> 0, core |-> "dict", num |-> 0]
    ELSE [JsonLoads(SubSeq(b, 2, Len(b) - 1)) EXCEPT !.depth = @ + 1]

NoMessage == [depth |-> 0, core |-> "None", num |-> 0]

\* 0 < message_length <= MAX_MESSAGE_SIZE
LengthValid(n) == ~(n <= 0 \/ n > MAX_MESSAGE_SIZE)

\* lines 87-95: decode and parse; UnicodeDecodeError and JSONDecodeError are
\* caught and None returned
DecodeUncaught(message_data) ==
    IF Utf8Ok(message_data) /\ JsonOk(message_data)
    THEN [returned |-> "message", message |-> JsonLoads(message_data)]
    ELSE [returned |-> "raised", message |-> NoMessage]

Decode(message_data) ==
    IF ~Utf8Ok(message_data)
    THEN [returned |-> "None", message |-> NoMessage]
    ELSE IF ~JsonOk(message_data)
    THEN [returned |-> "None", message |-> NoMessage]
    ELSE [returned |-> "message", message |-> JsonLoads(message_data)]

\* the length prefixes and the streams a peer sends: every prefix of a
\* length followed by up to MaxRecvBody body bytes
PeerLengths == {0, 1, 2, 3, MAX_MESSAGE_SIZE, MAX_MESSAGE_SIZE + 1}

RECURSIVE SeqsUpTo(_, _)
SeqsUpTo(S, n) ==
    IF n = 0 THEN {<<>>}
    ELSE LET shorter == SeqsUpTo(S, n - 1)
         IN shorter \cup {Append(s, x) : s \in shorter, x \in S}

PeerStreams ==
    UNION {{SubSeq(Pack32(l) \o b, 1, k) : k \in 0 .. 4 + Len(b)} :
              l \in PeerLengths, b \in SeqsUpTo(BodyBytes, MaxRecvBody)}

InitRecv ==
    /\ InitServer
    /\ sim = "None"
    /\ hist = "None"
    /\ end_results = "None"
    /\ snd = "None"
    /\ locks = "None"
    /\ \E p \in PeerStreams :
         rcv = [peer |-> p, pos |-> 0, data |-> <<>>, n |-> 4,
                pc |-> "prefix", returned |-> "pending",
                message |-> NoMessage, recvs |-> 0, ended |-> "no"]

\* sock.recv(n - len(data)) returns k bytes; when data is complete,
\* receive_message goes on: after the prefix with the length check and the
\* body's _receive_exact, after the body with the decoding
RxRecv(k) ==
    /\ rcv.pc \in {"prefix", "body"}
    /\ k >= 1
    /\ k <= rcv.n - Len(rcv.data)
    /\ k <= Len(rcv.peer) - rcv.pos
    /\ LET data == rcv.data \o SubSeq(rcv.peer, rcv.pos + 1, rcv.pos + k)
           read == [rcv EXCEPT !.pos = @ + k, !.recvs = @ + 1]
       IN rcv' =
            IF Len(data) < rcv.n
            THEN [read EXCEPT !.data = data]
            ELSE IF rcv.pc = "prefix"
            THEN LET message_length == Unpack32(data)
                 IN IF LengthValid(message_length)
                    THEN [read EXCEPT !.pc = "body", !.data = <<>>,
                                      !.n = message_length]
                    ELSE [read EXCEPT !.pc = "done", !.data = data,
                                      !.returned = "None"]
            ELSE [read EXCEPT !.pc = "done", !.data = data,
                              !.returned = Decode(data).returned,
                              !.message = Decode(data).message]
    /\ UNCHANGED <<coordvars, sim, hist, end_results, snd, locks>>

\* the peer has closed (sock.recv returns b'') or reset the connection
\* (sock.recv raises socket.error): _receive_exact returns None and so does
\* receive_message
RxClosed(how) ==
    /\ rcv.pc \in {"prefix", "body"}
    /\ rcv.pos = Len(rcv.peer)
    /\ rcv' = [rcv EXCEPT !.pc = "done", !.returned = "None",
                          !.ended = how]
    /\ UNCHANGED <<coordvars, sim, hist, end_results, snd, locks>>

NextRecv ==
    \/ \E k \in 1 .. 4 : RxRecv(k)
    \/ \E how \in {"eof", "reset"} : RxClosed(how)

SpecRecv == InitRecv /\ [][NextRecv]_vars

\* ------------------------------------------------------- player_lock
\* the shared fields a thread at position p writes inside a
\* "with self.player_lock" block in the step it takes from there:
\* handle_hello and the LEAVE_GAME branch at "recv", the finally-clause at
\* "cleanup", the spawn loop of start_game, handle_input, the update loop
\* of game_loop.  game_started (start_game), game_ended (end_game) and tick
\* (game_loop) are assigned outside every such block
LockedWrites(p) ==
    IF p \in {"recv", "cleanup"} THEN {"players", "spectators"}
    ELSE IF p \in {"sg_spawn", "input_apply", "gl_update"} THEN {"players"}
    ELSE {}

\* --------------------------------------------------------------- system
\* Joining: any HELLO on any connection, disconnects, the start of the match
NextJoin ==
    \/ \E c \in Conns : AcceptConn(c)
    \/ \E c \in Conns, u \in Users, r \in Rooms, m \in Modes :
         RecvHello(c, u, r, m)
    \/ \E c \in Conns : SendResp(c)
    \/ \E c \in Conns : SpecInit(c)
    \/ \E c \in Conns : SpecSnap(c)
    \/ \E c \in Conns : CheckStart(c)
    \/ \E c \in Conns : SgStarted(c)
    \/ \E c \in Conns : SgTime(c)
    \/ \E c \in Conns : SgSpawn(c)
    \/ \E c \in Conns : SgBcast(c)
    \/ \E c \in Conns : RecvFail(c)
    \/ \E c \in Conns : Cleanup(c)

SpecJoin == Init /\ [][NextJoin]_vars

\* INPUT messages at every stage: before a HELLO, from a spectator, from a
\* player in the waiting room, during the match, and after a join timeout
\* has ended the match
NextInput ==
    \/ \E c \in Conns : AcceptConn(c)
    \/ AcceptTimeout
    \/ AcceptReason
    \/ EgCheck(Accept)
    \/ EgSet(Accept)
    \/ EgCollect(Accept)
    \/ EgBcast(Accept)
    \/ \E c \in Conns, m \in Modes : RecvHello(c, uids + 1, ROOM, m)
    \/ \E c \in Conns : SendResp(c)
    \/ \E c \in Conns : SpecInit(c)
    \/ \E c \in Conns : SpecSnap(c)
    \/ \E c \in Conns : CheckStart(c)
    \/ \E c \in Conns : SgStarted(c)
    \/ \E c \in Conns : SgTime(c)
    \/ \E c \in Conns : SgSpawn(c)
    \/ \E c \in Conns : SgBcast(c)
    \/ \E c \in Conns : RecvInput(c)
    \/ \E c \in Conns : InputApply(c)
    \/ \E c \in Conns : Cleanup(c)

SpecInput == Init /\ [][NextInput]_vars

\* The waiting room: players with fresh user ids join or drop, the second
\* join starts the match, the accept loop enforces the join timeout
NextLobby ==
    \/ \E c \in Conns : AcceptConn(c)
    \/ AcceptTimeout
    \/ AcceptReason
    \/ EgCheck(Accept)
    \/ EgSet(Accept)
    \/ EgCollect(Accept)
    \/ EgBcast(Accept)
    \/ \E c \in Conns : RecvHello(c, uids + 1, ROOM, "player")
    \/ \E c \in Conns : SendResp(c)
    \/ \E c \in Conns : CheckStart(c)
    \/ \E c \in Conns : SgStarted(c)
    \/ \E c \in Conns : SgTime(c)
    \/ \E c \in Conns : SgSpawn(c)
    \/ \E c \in Conns : SgBcast(c)
    \/ \E c \in Conns : RecvFail(c)
    \/ \E c \in Conns : Cleanup(c)

SpecLobby == Init /\ [][NextLobby]_vars

\* A match from the joins to its end: players with fresh user ids join, leave
\* or drop, the tick loop runs, the accept loop notices the end
NextMatch ==
    \/ \E c \in Conns : AcceptConn(c)
    \/ AcceptExit
    \/ \E t \in Threads : EgCheck(t)
    \/ \E t \in Threads : EgSet(t)
    \/ \E t \in Threads : EgCollect(t)
    \/ \E t \in Threads : EgBcast(t)
    \/ \E c \in Conns : RecvHello(c, uids + 1, ROOM, "player")
    \/ \E c \in Conns : SendResp(c)
    \/ \E c \in Conns : CheckStart(c)
    \/ \E c \in Conns : SgStarted(c)
    \/ \E c \in Conns : SgTime(c)
    \/ \E c \in Conns : SgSpawn(c)
    \/ \E c \in Conns : SgBcast(c)
    \/ \E c \in Conns : RecvLeave(c)
    \/ \E c \in Conns : RecvFail(c)
    \/ \E c \in Conns : Cleanup(c)
    \/ \E l \in Loops : GlLoop(l)
    \/ \E l \in Loops : GlUpdate(l)
    \/ \E l \in Loops : GlCheck(l)

SpecMatch == Init /\ [][NextMatch]_vars

\* A whole round: two players join with one HELLO each, the match starts,
\* the players play on or drop, and the tick loop runs for as long as the match is on; every
\* thread that is in start_game, in the tick loop or in
\* end_game keeps being scheduled, and the clock reaches the end of the
\* round
NextRound ==
    \/ \E c \in Conns : AcceptConn(c)
    \/ AcceptExit
    \/ \E c \in Conns : user_id[c] = 0 /\ RecvHello(c, uids + 1, ROOM, "player")
    \/ \E c \in Conns : SendResp(c)
    \/ \E c \in Conns : CheckStart(c)
    \/ \E c \in Conns : SgStarted(c)
    \/ \E c \in Conns : SgTime(c)
    \/ \E c \in Conns : SgSpawn(c)
    \/ \E c \in Conns : SgBcast(c)
    \/ \E c \in Conns : RecvFail(c)
    \/ \E c \in Conns : Cleanup(c)
    \/ \E l \in Loops : EgCheck(l)
    \/ \E l \in Loops : EgSet(l)
    \/ \E l \in Loops : EgCollect(l)
    \/ \E l \in Loops : EgBcast(l)
    \/ \E l \in Loops : GlLoop(l)
    \/ \E l \in Loops : GlUpdate(l)
    \/ \E l \in Loops : GlUpdateLate(l)
    \/ \E l \in Loops : GlCheck(l)

\* the tick loop at its check with the clock at the end of the round
GlCheckAtEnd(l) ==
    GlCheck(l) /\ now' - start_time >= ROUND_DURATION

FairRound ==
    /\ \A c \in Conns : WF_vars(SgTime(c) \/ SgSpawn(c) \/ SgBcast(c))
    /\ \A l \in Loops :
         /\ WF_vars(GlLoop(l) \/ GlUpdate(l) \/ GlUpdateLate(l))
         /\ WF_vars(EgCheck(l) \/ EgSet(l))
         /\ SF_vars(GlCheckAtEnd(l))

SpecRound == Init /\ [][NextRound]_vars /\ FairRound

\* every operation of the coordinator
Next ==
    \/ \E c \in Conns : AcceptConn(c)
    \/ AcceptTimeout
    \/ AcceptReason
    \/ AcceptExit
    \/ \E t \in Threads : EgCheck(t)
    \/ \E t \in Threads : EgSet(t)
    \/ \E t \in Threads : EgCollect(t)
    \/ \E t \in Threads : EgBcast(t)
    \/ \E c \in Conns, u \in Users, r \in Rooms, m \in Modes :
         RecvHello(c, u, r, m)
    \/ \E c \in Conns : SendResp(c)
    \/ \E c \in Conns : SpecInit(c)
    \/ \E c \in Conns : SpecSnap(c)
    \/ \E c \in Conns : CheckStart(c)
    \/ \E c \in Conns : SgStarted(c)
    \/ \E c \in Conns : SgTime(c)
    \/ \E c \in Conns : SgSpawn(c)
    \/ \E c \in Conns : SgBcast(c)
    \/ \E c \in Conns : RecvLeave(c)
    \/ \E c \in Conns : RecvInput(c)
    \/ \E c \in Conns : InputApply(c)
    \/ \E c \in Conns : RecvOther(c)
    \/ \E c \in Conns : RecvFail(c)
    \/ \E c \in Conns : Cleanup(c)
    \/ \E l \in Loops : GlLoop(l)
    \/ \E l \in Loops : GlUpdate(l)
    \/ \E l \in Loops : GlCheck(l)

Spec == Init /\ [][Next]_vars

\* ------------------------------------------------------------ the locks
\* player_lock (a threading.RLock) and the _send_lock of every connection's
\* ProtocolHandler, with the threads that take them: the handle_client
\* threads, one game_loop thread and the accept loop.  locks.prog[t] is
\* what thread t still has to do to the locks in the call it is in;
\* sock.send returns, so a thread inside send_message goes on to the release.
\* The lock of the handler report_to_lobby creates is used by nobody else.
LockThreads == {Accept} \cup Conns \cup {LoopOf(1)}

Op(kind, c) == [op |-> kind, conn |-> c]

\* with self.player_lock: body
WithLock(body) == <<Op("acquire", 0)>> \o body \o <<Op("release", 0)>>

\* handler.send_message(...) on connection c: with self._send_lock
SendMessage(c) == <<Op("send_acquire", c), Op("send_release", c)>>

\* broadcast: the recipients are collected under the lock, then one
\* send_message for each of the first n connections
RECURSIVE BroadcastLocks(_)
BroadcastLocks(n) ==
    IF n = 0 THEN WithLock(<<>>)
    ELSE BroadcastLocks(n - 1) \o SendMessage(n)

\* send_snapshot: build_snapshot takes the lock, then broadcast
SendSnapshotLocks == WithLock(<<>>) \o BroadcastLocks(NumConns)

\* the calls a thread can make, as what they do to the locks
StartGameLocks ==
    WithLock(<<>>) \o BroadcastLocks(NumConns) \o WithLock(<<>>)
        \o SendSnapshotLocks

EndGameLocks == WithLock(<<>>) \o BroadcastLocks(NumConns)

LockPrograms(t) ==
    IF t = Accept
    THEN \* start(): the accept timeout, with and without end_game
         {WithLock(<<>>), WithLock(<<>>) \o EndGameLocks}
    ELSE IF t \in Conns
    THEN {\* HELLO of a player: handle_hello, the reply, should_start
          WithLock(<<>>) \o SendMessage(t) \o WithLock(<<>>),
          WithLock(<<>>) \o SendMessage(t) \o WithLock(<<>>)
              \o StartGameLocks,
          \* HELLO of a spectator and send_initial_state_to_spectator
          WithLock(<<>>) \o SendMessage(t) \o WithLock(<<>>)
              \o SendMessage(t) \o WithLock(<<>>) \o SendMessage(t),
          \* handle_input: send_snapshot with the lock held
          WithLock(SendSnapshotLocks),
          \* LEAVE_GAME of a player, and the finally-clause
          EndGameLocks \o WithLock(<<>>),
          WithLock(<<>>)}
    ELSE \* game_loop: update with a snapshot, the periodic snapshot,
         \* check_game_end, with and without end_game
         {WithLock(SendSnapshotLocks) \o WithLock(<<>>),
          WithLock(<<>>) \o WithLock(SendSnapshotLocks) \o WithLock(<<>>)
              \o EndGameLocks}

InitLocks ==
    /\ InitServer
    /\ sim = "None"
    /\ hist = "None"
    /\ end_results = "None"
    /\ snd = "None"
    /\ rcv = "None"
    /\ locks = [owner |-> NoneT, depth |-> 0,
                send |-> [c \in Conns |-> NoneT],
                prog |-> [t \in LockThreads |-> <<>>],
                calls |-> [t \in LockThreads |-> 0]]

\* a thread enters one of its calls
LockCall(t) ==
    /\ locks.prog[t] = <<>>
    /\ locks.calls[t] < MaxLockCalls
    /\ \E p \in LockPrograms(t) :
         locks' = [locks EXCEPT !.prog[t] = p, !.calls[t] = @ + 1]
    /\ UNCHANGED <<coordvars, sim, hist, end_results, snd, rcv>>

\* a plain threading.Lock can be taken only while nobody holds it
PlayerLockPlain(t) == locks.owner = NoneT

\* an RLock can also be taken by the thread that holds it
PlayerLockFree(t) == locks.owner \in {NoneT, t}

NextIs(t, kind) == locks.prog[t] # <<>> /\ Head(locks.prog[t]).op = kind

PlayerLockAcquire(t) ==
    /\ NextIs(t, "acquire")
    /\ PlayerLockFree(t)
    /\ locks' = [locks EXCEPT !.owner = t, !.depth = @ + 1,
                              !.prog[t] = Tail(@)]
    /\ UNCHANGED <<coordvars, sim, hist, end_results, snd, rcv>>

PlayerLockRelease(t) ==
    /\ NextIs(t, "release")
    /\ locks' = [locks EXCEPT !.owner = IF locks.depth = 1 THEN NoneT ELSE @,
                              !.depth = @ - 1,
                              !.prog[t] = Tail(@)]
    /\ UNCHANGED <<coordvars, sim, hist, end_results, snd, rcv>>

SendLockAcquire(t) ==
    /\ NextIs(t, "send_acquire")
    /\ locks.send[Head(locks.prog[t]).conn] = NoneT
    /\ locks' = [locks EXCEPT !.send[Head(locks.prog[t]).conn] = t,
                              !.prog[t] = Tail(@)]
    /\ UNCHANGED <<coordvars, sim, hist, end_results, snd, rcv>>

SendLockRelease(t) ==
    /\ NextIs(t, "send_release")
    /\ locks' = [locks EXCEPT !.send[Head(locks.prog[t]).conn] = NoneT,
                              !.prog[t] = Tail(@)]
    /\ UNCHANGED <<coordvars, sim, hist, end_results, snd, rcv>>

NextLocks ==
    \/ \E t \in LockThreads : LockCall(t)
    \/ \E t \in LockThreads : PlayerLockAcquire(t)
    \/ \E t \in LockThreads : PlayerLockRelease(t)
    \/ \E t \in LockThreads : SendLockAcquire(t)
    \/ \E t \in LockThreads : SendLockRelease(t)

SpecLocks == InitLocks /\ [][NextLocks]_vars

\* the thread a waiting thread waits for, and whether a thread is waiting
HolderFor(t) ==
    IF NextIs(t, "acquire") THEN locks.owner
    ELSE locks.send[Head(locks.prog[t]).conn]

Blocked(t) ==
    \/ NextIs(t, "acquire") /\ ~PlayerLockFree(t)
    \/ NextIs(t, "send_acquire")
         /\ locks.send[Head(locks.prog[t]).conn] # NoneT

\* thread t waits, and the chain of holders starting from it, followed for n
\* steps, never reaches a thread that can go on
RECURSIVE WaitsForever(_, _)
WaitsForever(t, n) ==
    /\ Blocked(t)
    /\ \/ n = 0
       \/ locks.prog[HolderFor(t)] = <<>>
       \/ WaitsForever(HolderFor(t), n - 1)

\* --------------------------------------------------------------- claims
\* position of the first message of type m in a connection's log, 0 if none
Pos(s, m) == IF \E i \in 1 .. Len(s) : s[i] = m
             THEN CHOOSE i \in 1 .. Len(s) : s[i] = m ELSE 0

EgPcs == {"eg_check", "eg_set", "eg_collect", "eg_bcast"}

\* C1: on every player connection (under SpecLobby every connection is
\* one) the WELCOME reply is delivered strictly before any GAME_START
C1_WelcomeBeforeGameStart ==
    \A c \in Conns :
        Pos(log[c], "GAME_START") # 0 =>
            /\ Pos(log[c], "WELCOME") # 0
            /\ Pos(log[c], "WELCOME") < Pos(log[c], "GAME_START")

\* C2: the match starts exactly once: start_game runs at most one time,
\* GAME_START is broadcast at most once and at most one tick loop is launched
C2_StartsExactlyOnce ==
    start_calls <= 1 /\ game_starts <= 1 /\ loops_launched <= 1

LeaveEnded ==
    \A c \in Conns :
        (pc[c] \in {"cleanup", "closed"} /\ left_how[c] = "leave_in_progress")
            => game_ended

DropStep(c) ==
    \/ pc[c] = "recv" /\ pc'[c] = "cleanup"
       /\ left_how'[c] = "drop_in_progress"
    \/ pc[c] = "cleanup" /\ pc'[c] = "closed"
       /\ left_how[c] = "drop_in_progress"

C4_EndBroadcastsAndReports ==
    (game_ended /\ \A t \in Threads : pc[t] \notin EgPcs) =>
        (game_ends # <<>> /\ reports # <<>>)

\* C5: end_game never raises, and the accept loop is never terminated by an
\* exception escaping from it
C5_EndGameNeverRaises ==
    raised = {} /\ pc[Accept] # "ac_crashed"

\* C6: once the accept loop has found the join timeout expired with fewer
\* than two players and the match not started (under SpecLobby it leaves
\* ac_loop in no other way), the match is never started, and the
\* coordinator ends ENDED with reason insufficient_players
C6_TimeoutNeverStarts ==
    pc[Accept] # "ac_loop" =>
        /\ ~game_started /\ start_calls = 0
        /\ game_starts = 0 /\ loops_launched = 0
        /\ pc[Accept] \in {"ac_done", "ac_crashed"} =>
             (game_ended /\ end_reason = "insufficient_players")

\* a HELLO in player mode for this room is handled on connection c
PlayerHelloStep(c) ==
    /\ pc[c] = "recv" /\ pc'[c] = "send_resp"
    /\ response'[c].info \notin {"Invalid room", "SPECTATOR"}

\* C7: the player map never holds more than 2 entries, and a player-mode
\* HELLO handled while 2 players are joined is answered with the error
\* "Room full" and leaves the map as it is
C7_AtMostTwoPlayers ==
    [][/\ Len(players') <= 2
       /\ \A c \in Conns :
            (PlayerHelloStep(c) /\ Len(players) = 2) =>
              /\ response'[c] = Msg("ERROR", 0, "Room full")
              /\ players' = players]_vars

\* C7 witness: a HELLO has just been refused with "Room full" while the map
\* holds two players
C7_RoomFullRefused ==
    \E c \in Conns :
        /\ pc[c] = "send_resp"
        /\ response[c] = Msg("ERROR", 0, "Room full")
        /\ Len(players) = 2

RoleOf(ps, u) == ps[CHOOSE i \in 1 .. Len(ps) : ps[i].uid = u].role

\* C8: no two entries of the player map carry the same role, the first
\* entry admitted into an empty map holds P1, and the role of a user who
\* stays in the map never changes
C8_RolesInJoinOrder ==
    [][/\ \A i, j \in 1 .. Len(players') :
            i # j => players'[i].role # players'[j].role
       /\ (players = <<>> /\ players' # <<>>) => players'[1].role = "P1"
       /\ \A u \in Users :
            (InPlayers(u) /\ InPlayers(u)') =>
              RoleOf(players', u) = RoleOf(players, u)]_vars

\* C9: ENDED is terminal: once game_ended is set it stays set, and no step
\* taken afterwards changes the started flag, broadcasts GAME_START or
\* launches a tick loop
C9_EndedIsTerminal ==
    [][game_ended =>
         /\ game_ended'
         /\ game_started' = game_started
         /\ start_calls' = start_calls
         /\ game_starts' = game_starts
         /\ loops_launched' = loops_launched]_vars

\* a tick loop evaluates the end conditions, and what it records
CheckStep(l) == pc[l] = "gl_check" /\ pc'[l] # "gl_check"
Recorded(l) == IF pc'[l] = "eg_check" THEN end_reason' ELSE "continue"
Elapsed == now' - start_time

\* C10 as stated: (a), (b), (c) are evaluated in this order on every check,
\* the first one satisfied gives the reason, none satisfied continues
C10_OrderedEndConditions ==
    [][\A l \in Loops :
         CheckStep(l) =>
           Recorded(l) =
             IF players = <<>> /\ Elapsed > 10 THEN "aborted_no_players"
             ELSE IF \A i \in 1 .. Len(players) : players[i].game.game_over
                  THEN "all_players_game_over"
             ELSE IF Elapsed >= 90 THEN "time_limit"
             ELSE "continue"]_vars

\* C10 amended: with an empty player map only (a) is evaluated (the match
\* continues while no more than 10 s have elapsed); with a non-empty map
\* (b) then (c) are evaluated in this order, the first one satisfied gives
\* the reason, and the match continues when none is satisfied
C10_EmptyMapOnlyGrace ==
    [][\A l \in Loops :
         CheckStep(l) =>
           /\ players = <<>> =>
                Recorded(l) = IF Elapsed > 10 THEN "aborted_no_players"
                              ELSE "continue"
           /\ players # <<>> =>
                Recorded(l) =
                  IF \A i \in 1 .. Len(players) : players[i].game.game_over
                  THEN "all_players_game_over"
                  ELSE IF Elapsed >= 90 THEN "time_limit"
                  ELSE "continue"]_vars

\* C10 witness: a tick loop has evaluated the end conditions and gone on
\* with an empty player map inside the 10 s
C10_ContinuedWithNoPlayers ==
    \E l \in Loops :
        /\ pc[l] = "gl_loop"
        /\ tick >= 1
        /\ players = <<>>
        /\ ~game_ended
        /\ end_reason = "None"
        /\ now - start_time <= 10

\* a is strictly ahead of b in the order of the results: more lines cleared,
\* or as many lines and fewer filled cells
Ahead(a, b) ==
    \/ a.lines > b.lines
    \/ a.lines = b.lines /\ a.filledCells < b.filledCells

\* C11: for every pair of results the winner is the player who is not
\* game-over when exactly one of the two is game-over, and otherwise a player
\* no other player is ahead of in the order lines descending, filled cells
\* ascending (the first of the two on a complete tie); exactly the winner's
\* result is marked as the winner
C11_WinnerIsReference ==
    (end_results.winner_id # 0 /\ Len(end_results.given) = 2) =>
        LET a == end_results.given[1]
            b == end_results.given[2]
            w == end_results.winner_id
        IN /\ w \in {a.userId, b.userId}
           /\ (a.gameOver /\ ~b.gameOver) => w = b.userId
           /\ (b.gameOver /\ ~a.gameOver) => w = a.userId
           /\ (a.gameOver = b.gameOver) =>
                /\ Ahead(a, b) => w = a.userId
                /\ Ahead(b, a) => w = b.userId
                /\ (~Ahead(a, b) /\ ~Ahead(b, a)) => w = a.userId
           /\ \A i \in 1 .. 2 :
                end_results.results[i].winner
                    = (end_results.results[i].userId = w)

\* C11 witness: the player who is game-over has cleared more lines, and the
\* other one has won
C11_SurvivorWins ==
    /\ end_results.winner_id = 2
    /\ Len(end_results.given) = 2
    /\ end_results.given[1].gameOver /\ ~end_results.given[2].gameOver
    /\ end_results.given[1].lines > end_results.given[2].lines

\* number of the entries of a sequence that equal m
Count(s, m) == Cardinality({i \in 1 .. Len(s) : s[i] = m})

\* C12: the handler of an admitted spectator goes from the WELCOME straight
\* through send_initial_state_to_spectator, receiving nothing in between;
\* the started flag, once set, is still set when it reads it, so that after
\* an admission with the match in progress it sends GAME_START, and then it
\* sends exactly one SNAPSHOT for every player it has read from the player
\* map that is still joined, and none for anybody else
C12_SpectatorCatchUp ==
    [][/\ game_started => game_started'
       /\ \A c \in Conns :
            /\ (pc[c] = "send_resp" /\ pc'[c] # pc[c]
                /\ response[c].info = "SPECTATOR") => pc'[c] = "spec_init"
            /\ (pc[c] = "spec_init" /\ pc'[c] # pc[c]) =>
                 /\ pc'[c] = "spec_snap"
                 /\ spec_ids'[c] = PlayerIds
                 /\ game_started => Pos(log'[c], "GAME_START") # 0
            /\ (pc[c] = "spec_snap" /\ pc'[c] # pc[c]) =>
                 LET sent == SnapsOf(spec_ids[c])
                     read == {spec_ids[c][i] : i \in 1 .. Len(spec_ids[c])}
                 IN /\ pc'[c] \in {"recv", "cleanup"}
                    /\ \A u \in Users :
                         Count(sent, Snap(u)) =
                           IF u \in read /\ InPlayers(u) THEN 1 ELSE 0
                    /\ Len(sent) = Cardinality({u \in read : InPlayers(u)})
                    /\ log'[c] = DeliverAll(log[c], sent)]_vars

\* C12 witness: a spectator's handler has sent GAME_START after the start of
\* the match and is about to send the snapshots of the two players
C12_CatchUpOfTwoPlayers ==
    \E c \in Conns :
        /\ pc[c] = "spec_snap"
        /\ game_started
        /\ Len(spec_ids[c]) = 2
        /\ Len(players) = 2
        /\ Pos(log[c], "WELCOME") # 0
        /\ Pos(log[c], "WELCOME") < Pos(log[c], "GAME_START")

\* C14: a HELLO with another room id is answered with the ERROR "Invalid
\* room", in player and in spectator mode, and changes neither the player
\* map, nor the spectator map, nor the match state; sending the ERROR admits
\* nobody (user_id and client_mode stay as they are) and the handler goes
\* back to receiving on the open connection
C14_WrongRoomRejected ==
    [][\A c \in Conns :
         /\ \A u \in Users, m \in Modes, r \in Rooms \ {ROOM} :
              RecvHello(c, u, r, m) =>
                /\ response'[c] = Msg("ERROR", 0, "Invalid room")
                /\ UNCHANGED <<players, spectators, game_started, game_ended,
                               start_time, end_reason, tick, user_id,
                               client_mode, log, counters>>
         /\ (SendResp(c) /\ response[c].type = "ERROR") =>
                /\ Pos(log'[c], "ERROR") # 0
                /\ UNCHANGED <<shared, user_id, client_mode, counters>>
                /\ ~game_ended => pc'[c] = "recv"]_vars

\* C14 witness: the only HELLO so far has been answered with an ERROR while
\* the room was empty, and its connection is receiving again, not admitted
C14_RejectedAndOpen ==
    \E c \in Conns :
        /\ msgs = 1
        /\ pc[c] = "recv"
        /\ log[c] = <<"ERROR">>
        /\ user_id[c] = 0
        /\ players = <<>>
        /\ \A u \in Users : spectators[u] = 0

\* C13: receiving an INPUT on a connection that has completed no HELLO, on
\* a spectator's connection, or while the match has not started or has
\* ended, changes neither the player map with its simulations, nor the
\* spectator map, nor the match state, sends nothing to anybody and takes
\* the handler back to the top of its loop without entering handle_input's
\* locked part
C13_InputIgnored ==
    [][\A c \in Conns :
         (/\ RecvInput(c)
          /\ \/ user_id[c] = 0
             \/ client_mode[c] = "spectator"
             \/ ~game_started
             \/ game_ended) =>
           /\ pc'[c] # "input_apply"
           /\ UNCHANGED <<players, spectators, game_started, game_ended,
                          start_time, end_reason, tick, user_id, client_mode,
                          log, results, raised, counters, simvars>>]_vars

\* C13 witness: a spectator has joined and INPUTs have been received,
\* the match has ended by the join timeout, and nothing but the WELCOMEs and
\* the GAME_END has ever been sent
C13_InputsLeftNoTrace ==
    /\ msgs = MaxMsgs
    /\ game_ended
    /\ ~game_started
    /\ game_starts = 0
    /\ \E c \in Conns : client_mode[c] = "spectator" /\ pc[c] = "recv"
    /\ \A c \in Conns : \A i \in 1 .. Len(log[c]) :
         log[c][i] \in {"WELCOME", "GAME_END"}

\* whether the entries a .. b of the sequence s are the seven kinds, each
\* exactly once
IsPermutation(s, a, b) ==
    /\ b - a + 1 = Len(Kinds)
    /\ \A i \in 1 .. Len(Kinds) : Count(SubSeq(s, a, b), Kinds[i]) = 1

\* C17 as stated: any seven consecutive kinds of the sequence drawn by
\* spawn_piece are a permutation of the seven kinds
C17_EveryWindowIsPermutation ==
    \A a \in 1 .. Len(hist.drawn) :
        a + Len(Kinds) - 1 <= Len(hist.drawn) =>
            IsPermutation(hist.drawn, a, a + Len(Kinds) - 1)

\* C17 amended: the draws come in blocks of seven, one per shuffle: the
\* draws 7n+1 .. 7n+7 are a permutation of the seven kinds for every n, and
\* within a block that is not complete yet no kind occurs twice
C17_EveryBagIsPermutation ==
    /\ \A a \in 1 .. Len(hist.drawn) :
        (a % Len(Kinds) = 1 /\ a + Len(Kinds) - 1 <= Len(hist.drawn)) =>
            IsPermutation(hist.drawn, a, a + Len(Kinds) - 1)
    /\ \A i, j \in 1 .. Len(hist.drawn) :
        (i < j /\ (i - 1) \div Len(Kinds) = (j - 1) \div Len(Kinds)) =>
            hist.drawn[i] # hist.drawn[j]

\* C17 witness: eight kinds have been drawn, the eighth is the same as the
\* second, and the first seven are a permutation
C17_SecondBagRepeatsEarly ==
    /\ Len(hist.drawn) = Len(Kinds) + 1
    /\ hist.drawn[Len(Kinds) + 1] = hist.drawn[2]
    /\ IsPermutation(hist.drawn, 1, Len(Kinds))

\* C18: after the construction and after every spawn_piece the preview
\* next_pieces holds at least three kinds (exactly three, in fact), so that
\* next_pieces[:3] of a snapshot has three entries
C18_LookaheadOfThree ==
    /\ Len(sim.next_pieces) >= LOOKAHEAD
    /\ Len(SubSeq(sim.next_pieces, 1, LOOKAHEAD)) = LOOKAHEAD
    /\ \A i \in 1 .. Len(sim.next_pieces) :
         \E n \in 1 .. Len(Kinds) : sim.next_pieces[i] = Kinds[n]

\* C18 witness: spawn_piece has popped nine kinds and the preview still
\* holds three
C18_PreviewAfterNineSpawns ==
    /\ Len(hist.drawn) = MaxRefills - 1
    /\ Len(sim.next_pieces) = LOOKAHEAD

\* the active piece, if there is one, is inside the columns of the board,
\* above its floor, and on no cell of the board that is taken
PieceInside(g) ==
    g.current_piece # "None" =>
      \A cell \in Cells(g.current_piece, g.current_x, g.current_y,
                        g.current_rotation) :
        /\ cell[1] >= 0
        /\ cell[1] < BOARD_W
        /\ cell[2] < BOARD_H
        /\ cell[2] >= 0 => g.board[cell[2]][cell[1]] = 0

\* C15: after any sequence of move, rotate and hard_drop calls (no hold has
\* succeeded) the active piece is inside the board and overlaps no taken
\* cell
C15_CollisionInvariant ==
    hist.holds = 0 => PieceInside(sim)

\* the cells a spawn of the next kind of g would take (x = 4, y = 0,
\* rotation 0) include a cell of the board that is taken
FootprintHit(g) ==
    \E cell \in Cells(Head(g.next_pieces), SPAWN_X, 0, 0) :
        g.board[cell[2]][cell[1]] # 0

\* the game on which the lock_piece of a hard_drop calls spawn_piece
LockedBeforeSpawn(g, t) == ClearLines(WritePiece(DropDown(g)), t)

\* C16: whenever spawn_piece runs on a board where the footprint of the
\* next kind hits a taken cell (in the lock of a hard_drop that completes no
\* row, or in the first hold), it sets game_over, returns False and leaves
\* the board as it was
C16_SpawnOnTakenFootprint ==
    [][/\ (DoHardDrop /\ ~Dead(sim)) =>
            LET pre == LockedBeforeSpawn(sim, hist.time)
            IN (pre.clearing_rows = <<>> /\ FootprintHit(pre)) =>
                 /\ ~SpawnPiece(pre).ret
                 /\ sim' = SpawnPiece(pre).game
                 /\ sim'.game_over
                 /\ sim'.board = pre.board
       /\ (DoHold /\ Hold(sim).ret /\ sim.hold_piece = "None"
             /\ FootprintHit(sim)) =>
            /\ ~SpawnPiece(sim).ret
            /\ sim'.game_over
            /\ sim'.board = sim.board]_vars

\* C16 witness: the last spawn_piece has returned False, after a lock, on a
\* game that was not over before: the game is over and the piece it made
\* current lies on a taken cell
C16_ToppedOut ==
    /\ hist.locks > 0
    /\ ~hist.spawn_ret
    /\ sim.game_over
    /\ sim.current_x = SPAWN_X /\ sim.current_y = 0
    /\ \E cell \in Cells(sim.current_piece, SPAWN_X, 0, 0) :
         sim.board[cell[2]][cell[1]] # 0

FilledCells(board) ==
    Cardinality({c \in (0 .. BOARD_W - 1) \X (0 .. BOARD_H - 1) :
                   board[c[2]][c[1]] # 0})

\* a clear is pending on g and its delay has elapsed at time t
ClearDue(g, t) ==
    /\ g.clearing_rows # <<>>
    /\ g.clear_effect_start # NoneT
    /\ t - g.clear_effect_start >= CLEAR_EFFECT_DELAY

\* the instants of the model
SimTimes == {SimStart + n * TimeStep : n \in 0 .. MaxSimTime \div TimeStep}

\* C20: a call of finalize_line_clear with no pending clear, or before the
\* delay of 0.35 s has elapsed, changes nothing of the simulation; a call
\* with a clear that is due removes the pending rows (ten taken cells each)
\* and adds their number to lines, once between two locks; a second call
\* after any call, at the same or at a later time, changes nothing; and
\* lines, level and drop_interval change in no other way
C20_FinalizeOnce ==
    [][/\ DoFinalize =>
            /\ ~ClearDue(sim, hist.time) => sim' = sim
            /\ ClearDue(sim, hist.time) =>
                 /\ sim'.lines = sim.lines + Len(sim.clearing_rows)
                 /\ FilledCells(sim'.board) =
                      FilledCells(sim.board) - BOARD_W * Len(sim.clearing_rows)
                 /\ sim'.clearing_rows = <<>>
                 /\ hist.removals = 0
            /\ \A t \in SimTimes :
                 t >= hist.time => FinalizeLineClear(sim', t) = sim'
       /\ hist'.removals <= 1
       /\ <<sim'.lines, sim'.level, sim'.drop_interval>>
            # <<sim.lines, sim.level, sim.drop_interval>> =>
            /\ ClearDue(sim, hist.time)
            /\ sim'.lines = sim.lines + Len(sim.clearing_rows)]_vars

\* C20 witness: the bottom row has been completed and removed, lines is 1,
\* no piece has been locked since, and a further call changes nothing
C20_RowRemovedOnce ==
    /\ sim.lines = 1
    /\ hist.removals = 1
    /\ sim.clearing_rows = <<>>
    /\ FilledCells(sim.board) = 6
    /\ FinalizeLineClear(sim, hist.time) = sim

\* the rows of a pending clear, as a set
PendingRows(g) == {g.clearing_rows[i] : i \in 1 .. Len(g.clearing_rows)}

\* C21: while a clear is pending the board stays as the lock left it, with
\* every pending row full; the call of finalize_line_clear that removes k
\* pending rows leaves a board of 20 rows of 10 cells with 10 k taken cells
\* fewer, whose k top rows are empty and in which every row that was not
\* pending has moved down, unchanged, by the number of pending rows below it
C21_ClearKeepsTheRest ==
    [][/\ (sim.clearing_rows # <<>> /\ sim'.clearing_rows # <<>>) =>
            /\ sim'.board = sim.board
            /\ \A y \in PendingRows(sim) : \A x \in 0 .. BOARD_W - 1 :
                 sim.board[y][x] # 0
       /\ (DoFinalize /\ ClearDue(sim, hist.time)) =>
            LET k == Len(sim.clearing_rows)
            IN /\ k >= 1
               /\ DOMAIN sim'.board = 0 .. BOARD_H - 1
               /\ \A y \in 0 .. BOARD_H - 1 :
                    DOMAIN sim'.board[y] = 0 .. BOARD_W - 1
               /\ FilledCells(sim'.board) <= FilledCells(sim.board) - BOARD_W * k
               /\ \A y \in 0 .. k - 1 : sim'.board[y] = EmptyRow
               /\ \A y \in (0 .. BOARD_H - 1) \ PendingRows(sim) :
                    sim'.board[y + Cardinality({p \in PendingRows(sim) : p > y})]
                      = sim.board[y]]_vars

\* C21 witness: the bottom row has been removed and what was above it (the
\* top of the O, of the T and of the S) lies one row lower, in its columns
C21_RestMovedDown ==
    /\ sim.lines = 1
    /\ hist.removals = 1
    /\ hist.locks = 4
    /\ sim.board[BOARD_H - 1][4] = ColorValue("O")
    /\ sim.board[BOARD_H - 1][7] = ColorValue("T")
    /\ sim.board[BOARD_H - 2][8] = ColorValue("S")
    /\ sim.board[BOARD_H - 1][0] = 0

\* C26: the active piece is absent exactly when no piece has been spawned
\* yet, or a clear is pending, or the game is over
C26_PieceAbsentExactly ==
    (sim.current_piece = "None") <=>
        \/ hist.drawn = <<>>
        \/ sim.clearing_rows # <<>>
        \/ sim.game_over

\* what build_snapshot reports of a simulation
Visible(g) ==
    [boardMatrix |-> g.board,
     clearing |-> g.clearing_rows,
     active |-> IF g.current_piece = "None" THEN <<>>
                ELSE <<g.current_piece, g.current_x, g.current_y,
                       g.current_rotation>>,
     hold |-> g.hold_piece,
     next |-> SubSeq(g.next_pieces, 1, LOOKAHEAD),
     lines |-> g.lines,
     level |-> g.level,
     gameOver |-> g.game_over]

\* C27: update returns True exactly when it has changed something that a
\* snapshot shows
C27_UpdateReportsChange ==
    [][DoUpdate => (Update(sim, hist.time).ret <=> Visible(sim') # Visible(sim))]_vars

\* the piece of g, put at rotation rot and moved by (dx, dy), is inside the
\* board and on no taken cell
FreeAt(g, dx, dy, rot) ==
    \A cell \in Cells(g.current_piece, g.current_x + dx, g.current_y + dy,
                      rot) :
        /\ cell[1] >= 0
        /\ cell[1] < BOARD_W
        /\ cell[2] < BOARD_H
        /\ cell[2] >= 0 => g.board[cell[2]][cell[1]] = 0

\* the offsets of C28, in their order
KickOrder == <<<<0, 0>>, <<0 - 1, 0>>, <<1, 0>>, <<0, 0 - 1>>,
               <<0 - 1, 0 - 1>>, <<1, 0 - 1>>>>

\* C28: a rotate of a live piece takes the rotation (current +1 or -1) mod 4
\* and the first offset of (0,0), (-1,0), (+1,0), (0,-1), (-1,-1), (+1,-1)
\* at which the rotated piece is free: the piece moves by that offset and
\* takes the rotation, nothing else changes and the call returns True; when
\* no offset is free the call returns False and changes nothing
C28_FirstFreeKick ==
    [][\A clockwise \in BOOLEAN :
         (PlayRotate(clockwise) /\ ~sim.game_over
            /\ sim.current_piece # "None") =>
           LET rot == IF clockwise
                      THEN (sim.current_rotation + 1) % 4
                      ELSE IF sim.current_rotation = 0 THEN 3
                           ELSE sim.current_rotation - 1
               free == {i \in 1 .. 6 :
                          FreeAt(sim, KickOrder[i][1], KickOrder[i][2], rot)}
           IN IF free = {}
              THEN sim' = sim /\ ~Rotate(sim, clockwise).ret
              ELSE \E i \in free :
                     /\ \A j \in free : i <= j
                     /\ Rotate(sim, clockwise).ret
                     /\ sim' = [sim EXCEPT
                                  !.current_x = @ + KickOrder[i][1],
                                  !.current_y = @ + KickOrder[i][2],
                                  !.current_rotation = rot]]_vars

\* C28 witness: the last rotate has applied the fourth offset, (0,-1): the
\* piece was lifted by one row because the first three offsets collided
C28_KickedUp ==
    /\ hist.rotated = 4
    /\ ~sim.game_over
    /\ sim.current_piece # "None"

\* C29: level is lines \div 10 + 1; drop_interval, in hundredths of a
\* second, is the larger of 10 and 100 - (level - 1) * 10, that is, in
\* tenths, the larger of 1 and 11 - level: never below 0.1 s, and 0.1 s
\* from level 10 on
C29_LevelAndInterval ==
    /\ sim.level = (sim.lines \div 10) + 1
    /\ sim.drop_interval =
         IF 100 - (sim.level - 1) * 10 > 10
         THEN 100 - (sim.level - 1) * 10 ELSE 10
    /\ sim.drop_interval = 10 * (IF 11 - sim.level > 1 THEN 11 - sim.level ELSE 1)
    /\ sim.drop_interval >= 10
    /\ sim.level >= 10 => sim.drop_interval = 10

\* C29 witness: finalize_line_clear has removed the row that took lines
\* from 109 to 110: the level is 12 and the interval is still 0.1 s
C29_FloorAtLevelTwelve ==
    /\ hist.removals = 1
    /\ sim.lines = 110
    /\ sim.level = 12
    /\ sim.drop_interval = DROP_INTERVAL_MIN

\* C30: GAME_END is broadcast at most once and the lobby gets at most one
\* report, whichever threads call end_game
C30_EndsAtMostOnce ==
    /\ Len(game_ends) <= 1
    /\ Len(reports) <= 1

\* the end of the round lies within the time that is followed
RoundInSight == Truthy(start_time) /\ start_time + ROUND_DURATION <= MaxTime

\* C25: from a state in which the match is in progress (and the end of its
\* round lies within the time that is followed), the match ends: the first
\* check of the tick loop that finds the round duration elapsed calls
\* end_game, whatever the players have done
C25_RoundEnds ==
    (game_started /\ ~game_ended /\ RoundInSight)
        ~> (game_ended \/ ~RoundInSight)

\* C25 witness: the match has ended for the time limit, with both players
\* still joined and not game over
C25_EndedOnTime ==
    /\ game_ended
    /\ end_reason = "time_limit"
    /\ Len(players) = 2
    /\ now - start_time >= ROUND_DURATION

\* C22: concurrent send_message calls on one connection are serialized.  The
\* bytes the socket has taken are always the frames (4-byte length, then the
\* body) of the senders that entered the locked part, whole and in the
\* order they entered, the last one possibly written in part only; and once
\* no sender is writing on a working connection the stream is exactly these
\* whole frames.
C22_SendsSerialized ==
    /\ IsPrefix(snd.stream, Concat(snd.order))
    /\ (~snd.broken /\ \A t \in Senders : snd.th[t].pc # "send")
         => snd.stream = Concat(snd.order)

\* three whole frames are on the wire, and a sender waited for the lock
\* while another one had written a part of its frame
C22_ThreeFramesAfterWaiting ==
    /\ snd.contended
    /\ ~snd.broken
    /\ Len(snd.order) = NumSenders
    /\ \A t \in Senders : snd.th[t].ret = "True"
    /\ snd.stream = Concat(snd.order)

\* C23: receive_message never raises; it returns None when the peer closes
\* before the 4 bytes of the prefix or before the `length` bytes of the body
\* have come, when the length is 0 or more than MAX_MESSAGE_SIZE, or when
\* the body is not valid JSON text; in every other case it returns the
\* message decoded from exactly the `length` bytes after the prefix, and has
\* read not one byte beyond them.
C23_ReceiveResult ==
    /\ rcv.returned # "raised"
    /\ rcv.pc = "done" =>
         LET p == rcv.peer
             length == IF Len(p) >= 4 THEN Unpack32(SubSeq(p, 1, 4)) ELSE 0
             body == SubSeq(p, 5, 4 + length)
             failure ==
                 \/ Len(p) < 4
                 \/ length = 0
                 \/ length > MAX_MESSAGE_SIZE
                 \/ Len(p) < 4 + length
                 \/ ~(Utf8Ok(body) /\ JsonOk(body))
         IN IF failure
            THEN rcv.returned = "None"
            ELSE /\ rcv.returned = "message"
                 /\ rcv.message = JsonLoads(body)
                 /\ rcv.pos = 4 + length

\* an empty dict has been returned from a stream read in several pieces,
\* with a byte of the next frame left unread
C23_MessageFromPieces ==
    /\ rcv.pc = "done"
    /\ rcv.returned = "message"
    /\ rcv.message = [depth |-> 0, core |-> "dict", num |-> 0]
    /\ rcv.recvs >= 4
    /\ rcv.pos < Len(rcv.peer)

\* C24: the player map (with the simulations in it), the spectator map, the
\* started and ended flags and the tick counter are written only by a thread
\* that holds player_lock: whenever a step of a thread changes one of them,
\* the thread writes it inside a "with self.player_lock" block.
C24_WritesUnderLock ==
    [][\A t \in Threads :
         pc'[t] # pc[t] =>
           /\ players' # players => "players" \in LockedWrites(pc[t])
           /\ spectators' # spectators => "spectators" \in LockedWrites(pc[t])
           /\ game_started' # game_started
                => "game_started" \in LockedWrites(pc[t])
           /\ game_ended' # game_ended => "game_ended" \in LockedWrites(pc[t])
           /\ tick' # tick => "tick" \in LockedWrites(pc[t])]_vars

\* C38: game-over is absorbing.  On a simulation whose game_over flag is set,
\* every move, rotate, hard_drop, hold and update (due or not) returns False
\* and leaves the simulation as it is, the flag, the board, lines, level,
\* the hold slot, the active piece and the queue included.
C38_GameOverAbsorbing ==
    sim.game_over =>
      /\ \A action \in InputActions :
           ApplyInput(sim, action, hist.time) = [game |-> sim, ret |-> FALSE]
      /\ \A t \in UpdateTimes(hist.time) :
           Update(sim, t) = [game |-> sim, ret |-> FALSE]

\* a simulation topped out after some locks, and MaxCalls calls were made on
\* it since
C38_CalledAfterGameOver ==
    /\ sim.game_over
    /\ hist.locks > 0
    /\ hist.inputs = MaxCalls

\* C37: every lock writes the four cells of the active piece to the board.
\* Wherever moves, kicked rotations and holds have brought the active piece,
\* the board that lock_piece has written (in hard_drop after the fall, in
\* move('down') where the piece rests), before any row is removed, has
\* exactly 4 more taken cells than the board before the lock.
C37_LockWritesFourCells ==
    ~Dead(sim) =>
      FilledCells(WritePiece(DropDown(sim)).board)
        = FilledCells(sim.board) + 4

\* C36: after any successful hold, the first one (which spawns the next
\* piece) and the swap with the held piece (which puts the active piece at
\* x = 4, y = 0, rotation 0) alike, the active piece lies on no taken cell of
\* the board unless the simulation is marked game over.
C36_HoldLeavesNoOverlap ==
    [][(PlayHold /\ Hold(sim).ret)
         => (sim'.game_over \/ PieceInside(sim'))]_vars

\* the kinds a random source gives, shuffle after shuffle
SeedKinds(rnd) == Concat([i \in 1 .. Len(rnd) |-> Shuffled(rnd[i])])

\* C35: the kinds a simulation draws are a function of its seed alone.
\* Whatever moves, rotations, holds and hard drops have been applied, the
\* kinds popped from the queue so far are the first kinds the seed gives, and
\* the queue (the preview, then the bag) holds the kinds that follow them:
\* two simulations with the same seed draw the same k-th kind for every k.
C35_DrawsFollowSeed ==
    LET all == SeedKinds(hist.seed)
        p == Len(hist.drawn)
        queue == sim.next_pieces \o sim.bag
    IN /\ hist.drawn = SubSeq(all, 1, p)
       /\ queue = SubSeq(all, p + 1, p + Len(queue))

\* nine kinds have been drawn from a seed whose second shuffle differs from
\* the first, in a simulation with a hold and a second call
C35_NinthKindAfterInputs ==
    /\ Len(hist.drawn) = Len(Kinds) + 2
    /\ hist.seed[1] # hist.seed[2]
    /\ hist.holds > 0
    /\ hist.calls = MaxCalls

\* C34: in the GAME_END message end_game builds from a non-empty result
\* list, exactly one result has winner = true, and it is the result of the
\* user the top-level winner field names; every other result has winner =
\* false.
C34_OneWinnerMarked ==
    end_results.winner_id # 0 =>
        LET rs == end_results.results
            marked == {i \in 1 .. Len(rs) : rs[i].winner}
        IN /\ Len(rs) = Len(end_results.given)
           /\ Cardinality(marked) = 1
           /\ \A i \in marked : rs[i].userId = end_results.winner_id

\* two results were left in the order they were collected, and the second
\* one is marked as the winner
C34_SecondResultMarked ==
    /\ end_results.winner_id = 2
    /\ Len(end_results.results) = 2
    /\ end_results.results[2].userId = 2
    /\ end_results.results[2].winner
    /\ ~end_results.results[1].winner

\* C33: on a player's connection no SNAPSHOT is delivered before the
\* GAME_START of the match, however the steps of start_game interleave with
\* the INPUT handling of the other handler threads: when handle_input
\* delivers a SNAPSHOT on the connection of a player, a GAME_START has been
\* delivered on that connection before.
C33_StartBeforeSnapshots ==
    [][\A c, d \in Conns :
         (/\ InputApply(d)
          /\ \E p \in 1 .. Len(players) : players[p].handler = c
          /\ log'[c] # log[c]) =>
            \E j \in 1 .. Len(log[c]) : log[c][j] = "GAME_START"]_vars

\* C32: the finally-clause of a connection handler removes from the player
\* map only an entry admitted through its own connection: every entry whose
\* handler is a different connection (one that sent HELLO with the same user
\* id and so replaced the entry) is still in the player map after the step.
C32_CleanupKeepsOthers ==
    [][\A c \in Conns :
         Cleanup(c) =>
            \A p \in 1 .. Len(players) :
                players[p].handler # c =>
                    \E q \in 1 .. Len(players') : players'[q] = players[p]]_vars

\* C31: the coordinator never deadlocks on player_lock or on a send lock:
\* in every reachable state, following from any waiting thread the thread
\* that holds the lock it waits for, one arrives at a thread that is not
\* waiting and has its release still to do.  So no thread waits on itself
\* (the snapshot helpers called with player_lock held take it again), no
\* circle of waiting threads forms, and a lock is never left taken; the
\* thread at the end goes on, since socket sends return.
C31_NoDeadlock ==
    \A t \in LockThreads : ~WaitsForever(t, Cardinality(LockThreads))

\* handle_input or the game loop is inside a snapshot helper with player_lock
\* taken twice while another thread waits for player_lock and a third thread
\* holds a send lock
C31_NestedWhileOthersWait ==
    /\ locks.depth = 2
    /\ \E t \in LockThreads : NextIs(t, "acquire") /\ Blocked(t)
    /\ \E c \in Conns : locks.send[c] \notin {NoneT, locks.owner}

====
